---- MODULE Spec2Model ----
(***************************************************************************)
(* NAAN registry: the record model (lib_naan/__init__.py), the JSON backed *)
(* repository (lib_naan/naans.py) and the ANVL ingestion loops.            *)
(*                                                                         *)
(* Python values are represented as follows.                               *)
(*   str            a TLA+ string                                          *)
(*   None           the string "None"                                      *)
(*   no attribute   the string "NA" (the class does not declare the field, *)
(*                  or the JSON object has no such key)                    *)
(*   datetime       an integer number of clock ticks, Precision ticks to   *)
(*                  the second                                             *)
(*   dataclass      a record with one field per attribute and a field      *)
(*                  naming the concrete class (cls, wcls)                  *)
(***************************************************************************)
EXTENDS Integers, Sequences, FiniteSets, TLC

None == "None"
NA == "NA"

(* Bounds of the model. *)
MaxProfile == 2
MaxRecords == 3
MaxClock == 1
Precision == 2

NaanVals == {"12345", "99999"}
ShoulderVals == {"foo", "zzz"}
WhenVals == {1, Precision + 1}

NaanClasses == {"NAAN", "PublicNAAN"}
ShoulderClasses == {"NAANShoulder", "PublicNAANShoulder"}
PrivateClasses == {"NAAN", "NAANShoulder"}

(* Field values of the sample records: profile p gives every field a value *)
(* that names the field and p; optional fields are None in even profiles.  *)
Val(f, p) == f \o ToString(p)
Opt(f, p) == IF p % 2 = 1 THEN Val(f, p) ELSE None

----------------------------------------------------------------------------
(* The dataclasses. *)

Target(p) ==
    [url |-> Val("url", p), http_code |-> 300 + p]

PublicNAAN_who(p) ==
    [wcls |-> "PublicNAAN_who", name |-> Val("name", p),
     name_native |-> Opt("name_native", p), acronym |-> Opt("acronym", p),
     address |-> NA]

NAAN_who(p) ==
    [PublicNAAN_who(p) EXCEPT !.wcls = "NAAN_who", !.address = Opt("address", p)]

NAAN_how(p) ==
    [orgtype |-> Val("orgtype", p), policy |-> Val("policy", p),
     tenure |-> Val("tenure", p), policy_url |-> Opt("policy_url", p)]

PublicNAAN(what, p, when) ==
    [cls |-> "PublicNAAN", rtype |-> "PublicNAAN",
     what |-> what, naan |-> NA, shoulder |-> NA,
     where |-> Val("where", p), target |-> Target(p), when |-> when,
     who |-> PublicNAAN_who(p), na_policy |-> NAAN_how(p),
     test_identifier |-> Opt("test_identifier", p),
     service_provider |-> Opt("service_provider", p),
     purpose |-> Val("purpose", p),
     why |-> NA, contact |-> NA, alternate_contact |-> NA,
     comments |-> NA, provider |-> NA]

NAAN(what, p, when) ==
    [PublicNAAN(what, p, when) EXCEPT
        !.cls = "NAAN", !.rtype = "NAAN", !.who = NAAN_who(p),
        !.why = Val("why", p), !.contact = Opt("contact", p),
        !.alternate_contact = Opt("alternate_contact", p),
        !.comments = Opt("comments", p), !.provider = Opt("provider", p)]

PublicNAANShoulder(naan, shoulder, p, when) ==
    [cls |-> "PublicNAANShoulder", rtype |-> "PublicNAANShoulder",
     what |-> naan \o "/" \o shoulder, naan |-> naan, shoulder |-> shoulder,
     where |-> Val("where", p), target |-> Target(p), when |-> when,
     who |-> PublicNAAN_who(p), na_policy |-> NAAN_how(p),
     test_identifier |-> Opt("test_identifier", p),
     service_provider |-> NA, purpose |-> NA,
     why |-> NA, contact |-> NA, alternate_contact |-> NA,
     comments |-> NA, provider |-> NA]

NAANShoulder(naan, shoulder, p, when) ==
    [PublicNAANShoulder(naan, shoulder, p, when) EXCEPT
        !.cls = "NAANShoulder", !.rtype = "NAANShoulder", !.who = NAAN_who(p),
        !.contact = Opt("contact", p),
        !.alternate_contact = Opt("alternate_contact", p),
        !.comments = Opt("comments", p), !.provider = Opt("provider", p)]

(* The identifier property of the four record classes. *)
identifier(r) ==
    IF r.cls \in ShoulderClasses THEN r.naan \o "/" \o r.shoulder ELSE r.what

(* A value standing for "no record" where a record is expected. *)
NoRecord == [PublicNAAN(None, 1, 0) EXCEPT !.cls = "none", !.rtype = None]

(* Outcome of a method: the exception raised ("none" if it returned) and   *)
(* the receiver as the call leaves it.                                     *)
Outcome(err, rec) == [err |-> err, rec |-> rec]

----------------------------------------------------------------------------
(* update() of the nested value classes. *)

Target_update(self, record) ==
    [self EXCEPT !.url = record.url, !.http_code = record.http_code]

PublicNAAN_who_update(self, record) ==
    [self EXCEPT !.name = record.name, !.name_native = record.name_native,
                 !.acronym = record.acronym]

NAAN_who_update_no_address(self, record) ==
    PublicNAAN_who_update(self, record)

NAAN_who_update(self, record) ==
    IF record.wcls = "NAAN_who"
    THEN [PublicNAAN_who_update(self, record) EXCEPT !.address = record.address]
    ELSE PublicNAAN_who_update(self, record)

(* who.update dispatches on the class of the stored who object. *)
who_update(self, record) ==
    IF self.wcls = "NAAN_who"
    THEN NAAN_who_update(self, record)
    ELSE PublicNAAN_who_update(self, record)

NAAN_how_update(self, record) ==
    [self EXCEPT !.orgtype = record.orgtype, !.policy = record.policy,
                 !.tenure = record.tenure, !.policy_url = record.policy_url]

----------------------------------------------------------------------------
(* update() and as_public() of the four record classes.  The assignments   *)
(* are applied in the order of the source, so that an exception raised     *)
(* part way leaves the receiver with the assignments made before it.       *)

PublicNAAN_update(self, record) ==
    LET rest(s1) ==
            IF record.service_provider = NA
            THEN Outcome("AttributeError", s1)
            ELSE Outcome("none",
                         [s1 EXCEPT !.service_provider = record.service_provider,
                                    !.purpose = record.purpose,
                                    !.when = record.when])
    IN  IF record.what # None /\ record.what # self.what
        THEN Outcome("ValueError", self)
        ELSE rest([self EXCEPT
                     !.where = record.where,
                     !.target = Target_update(self.target, record.target),
                     !.who = who_update(self.who, record.who),
                     !.na_policy = NAAN_how_update(self.na_policy, record.na_policy),
                     !.test_identifier = record.test_identifier])

NAAN_update_check_late(self, record, t) ==
    LET private(s2) ==
            IF record.cls = "NAAN"
            THEN Outcome("none",
                         [s2 EXCEPT !.why = record.why,
                                    !.contact = record.contact,
                                    !.alternate_contact = record.alternate_contact,
                                    !.comments = record.comments,
                                    !.provider = record.provider])
            ELSE Outcome("none", s2)
        rest(s1) ==
            IF record.service_provider = NA
            THEN Outcome("AttributeError", s1)
            ELSE private([s1 EXCEPT
                            !.service_provider = record.service_provider,
                            !.purpose = record.purpose,
                            !.when = t,
                            !.who = who_update(self.who, record.who),
                            !.na_policy = NAAN_how_update(self.na_policy,
                                                          record.na_policy)])
    IN  IF record.what # None /\ record.what # self.what
        THEN Outcome("ValueError", [self EXCEPT !.where = record.where])
        ELSE rest([self EXCEPT
                     !.where = record.where,
                     !.target = record.target,
                     !.test_identifier = record.test_identifier])

NAAN_update(self, record, t) ==
    LET private(s2) ==
            IF record.cls = "NAAN"
            THEN Outcome("none",
                         [s2 EXCEPT !.why = record.why,
                                    !.contact = record.contact,
                                    !.alternate_contact = record.alternate_contact,
                                    !.comments = record.comments,
                                    !.provider = record.provider])
            ELSE Outcome("none", s2)
        rest(s1) ==
            IF record.service_provider = NA
            THEN Outcome("AttributeError", s1)
            ELSE private([s1 EXCEPT
                            !.service_provider = record.service_provider,
                            !.purpose = record.purpose,
                            !.when = t,
                            !.who = who_update(self.who, record.who),
                            !.na_policy = NAAN_how_update(self.na_policy,
                                                          record.na_policy)])
    IN  IF record.what # None /\ record.what # self.what
        THEN Outcome("ValueError", self)
        ELSE rest([self EXCEPT
                     !.where = record.where,
                     !.target = record.target,
                     !.test_identifier = record.test_identifier])

PublicNAANShoulder_update(self, record) ==
    IF record.shoulder = NA
    THEN Outcome("AttributeError", self)
    ELSE IF record.shoulder # None /\ record.shoulder # self.shoulder
    THEN Outcome("ValueError", self)
    ELSE IF record.naan # None /\ record.naan # self.naan
    THEN Outcome("ValueError", self)
    ELSE Outcome("none",
                 [self EXCEPT
                    !.who = who_update(self.who, record.who),
                    !.where = record.where,
                    !.target = Target_update(self.target, record.target),
                    !.when = record.when,
                    !.na_policy = NAAN_how_update(self.na_policy, record.na_policy)])

NAANShoulder_update(self, record) ==
    LET rest(s2) ==
            Outcome("none",
                    [s2 EXCEPT
                       !.where = record.where,
                       !.target = Target_update(self.target, record.target),
                       !.when = record.when,
                       !.na_policy = NAAN_how_update(self.na_policy, record.na_policy)])
        private(s1) ==
            IF record.cls = "NAANShoulder"
            THEN rest([s1 EXCEPT !.contact = record.contact,
                                 !.alternate_contact = record.alternate_contact,
                                 !.comments = record.comments,
                                 !.provider = record.provider])
            ELSE rest(s1)
    IN  IF record.shoulder = NA
        THEN Outcome("AttributeError", self)
        ELSE IF record.shoulder # None /\ record.shoulder # self.shoulder
        THEN Outcome("ValueError", self)
        ELSE IF record.naan # None /\ record.naan # self.naan
        THEN Outcome("ValueError", self)
        ELSE private([self EXCEPT !.who = who_update(self.who, record.who)])

(* existing.update(entry): method dispatch on the class of the receiver;   *)
(* t is the clock reading NAAN.update takes.                               *)
record_update(self, record, t) ==
    CASE self.cls = "NAAN" -> NAAN_update(self, record, t)
      [] self.cls = "PublicNAAN" -> PublicNAAN_update(self, record)
      [] self.cls = "NAANShoulder" -> NAANShoulder_update(self, record)
      [] self.cls = "PublicNAANShoulder" -> PublicNAANShoulder_update(self, record)

NAAN_as_public_same_who(self) ==
    [self EXCEPT
       !.cls = "PublicNAAN", !.rtype = "PublicNAAN",
       !.why = NA, !.contact = NA, !.alternate_contact = NA,
       !.comments = NA, !.provider = NA]

NAAN_as_public(self) ==
    [self EXCEPT
       !.cls = "PublicNAAN", !.rtype = "PublicNAAN",
       !.who = [wcls |-> "PublicNAAN_who", name |-> self.who.name,
                name_native |-> self.who.name_native,
                acronym |-> self.who.acronym, address |-> NA],
       !.why = NA, !.contact = NA, !.alternate_contact = NA,
       !.comments = NA, !.provider = NA]

NAANShoulder_as_public(self) ==
    [self EXCEPT
       !.cls = "PublicNAANShoulder", !.rtype = "PublicNAANShoulder",
       !.who = [wcls |-> "PublicNAAN_who", name |-> self.who.name,
                name_native |-> self.who.name_native,
                acronym |-> self.who.acronym, address |-> NA],
       !.test_identifier = None,
       !.contact = NA, !.alternate_contact = NA,
       !.comments = NA, !.provider = NA]

(* record.as_public(): the public classes return self. *)
as_public(self) ==
    CASE self.cls = "NAAN" -> NAAN_as_public(self)
      [] self.cls = "NAANShoulder" -> NAANShoulder_as_public(self)
      [] OTHER -> self

----------------------------------------------------------------------------
(* NaanRepository.  A repository value holds _records (a sequence; Python  *)
(* position i is element i + 1), _index (identifier -> Python position)    *)
(* and _metadata.                                                          *)

VARIABLES records, index, metadata, now, disk, last,
          candidate_naans_file, allocated

vars == <<records, index, metadata, now, disk, last,
          candidate_naans_file, allocated>>

Repo(r, i, m) == [records |-> r, index |-> i, metadata |-> m]

(* Result of a repository call: exception ("none" if it returned), the     *)
(* repository as the call leaves it, and the value returned.               *)
Result(err, repo, out) == [err |-> err, repo |-> repo, out |-> out]

_update_index_from_one(recs) ==
    [k \in {identifier(recs[i]) : i \in 1..Len(recs)} |->
        (CHOOSE i \in 1..Len(recs) :
            /\ identifier(recs[i]) = k
            /\ \A j \in 1..Len(recs) : identifier(recs[j]) = k => j <= i)]

_update_index(recs) ==
    [k \in {identifier(recs[i]) : i \in 1..Len(recs)} |->
        (CHOOSE i \in 1..Len(recs) :
            /\ identifier(recs[i]) = k
            /\ \A j \in 1..Len(recs) : identifier(recs[j]) = k => j <= i) - 1]

(* self._metadata["updated"] = datetime.datetime.now(...) *)
touch(m, t) == [m EXCEPT !.updated = [kind |-> "datetime", v |-> t]]

get(repo, i, pub) ==
    IF pub THEN as_public(repo.records[i + 1]) ELSE repo.records[i + 1]

read(repo, key, pub) ==
    IF key \notin DOMAIN repo.index
    THEN Result("KeyError", repo, NoRecord)
    ELSE Result("none", repo, get(repo, repo.index[key], pub))

insert_truthy(repo, entry, t) ==
    LET appended(recs) ==
            Result("none", Repo(recs, _update_index(recs), touch(repo.metadata, t)), entry)
    IN  IF identifier(entry) \in DOMAIN repo.index /\ repo.index[identifier(entry)] # 0
        THEN Result("ValueError", repo, NoRecord)
        ELSE appended(Append(repo.records, entry))

insert(repo, entry, t) ==
    LET appended(recs) ==
            Result("none", Repo(recs, _update_index(recs), touch(repo.metadata, t)), entry)
    IN  IF identifier(entry) \in DOMAIN repo.index
        THEN Result("ValueError", repo, NoRecord)
        ELSE appended(Append(repo.records, entry))

update_append(repo, entry, t) ==
    LET replaced(o, recs) ==
            IF o.err # "none"
            THEN Result(o.err, Repo(recs, repo.index, repo.metadata), NoRecord)
            ELSE Result("none", Repo(recs, _update_index(recs), touch(repo.metadata, t)),
                        o.rec)
        updated(key, o) == replaced(o, Append(repo.records, o.rec))
    IN  IF read(repo, identifier(entry), FALSE).err # "none"
        THEN Result(read(repo, identifier(entry), FALSE).err, repo, NoRecord)
        ELSE updated(identifier(entry),
                     record_update(read(repo, identifier(entry), FALSE).out, entry, t))

update(repo, entry, t) ==
    LET replaced(o, recs) ==
            IF o.err # "none"
            THEN Result(o.err, Repo(recs, repo.index, repo.metadata), NoRecord)
            ELSE Result("none", Repo(recs, _update_index(recs), touch(repo.metadata, t)),
                        o.rec)
        updated(key, o) ==
            replaced(o, [repo.records EXCEPT ![repo.index[key] + 1] = o.rec])
    IN  IF read(repo, identifier(entry), FALSE).err # "none"
        THEN Result(read(repo, identifier(entry), FALSE).err, repo, NoRecord)
        ELSE updated(identifier(entry),
                     record_update(read(repo, identifier(entry), FALSE).out, entry, t))

upsert_no_fallback(repo, entry, t) ==
    insert(repo, entry, t)

upsert(repo, entry, t) ==
    IF insert(repo, entry, t).err = "ValueError"
    THEN update(repo, entry, t)
    ELSE insert(repo, entry, t)

delete_stale_index(repo, key, t) ==
    LET removed(recs) ==
            Result("none",
                   Repo(recs, [k \in DOMAIN repo.index \ {key} |-> repo.index[k]],
                        touch(repo.metadata, t)),
                   NoRecord)
        popped(i) ==
            removed(SubSeq(repo.records, 1, i - 1)
                        \o SubSeq(repo.records, i + 1, Len(repo.records)))
    IN  IF key \notin DOMAIN repo.index
        THEN Result("KeyError", repo, NoRecord)
        ELSE popped(repo.index[key] + 1)

delete_last_if_missing(repo, key, t) ==
    LET removed(recs) ==
            Result("none", Repo(recs, _update_index(recs), touch(repo.metadata, t)),
                   NoRecord)
    IN  IF repo.records = <<>>
        THEN Result("KeyError", repo, NoRecord)
        ELSE removed(SubSeq(repo.records, 1, Len(repo.records) - 1))

delete(repo, key, t) ==
    LET removed(recs) ==
            Result("none", Repo(recs, _update_index(recs), touch(repo.metadata, t)),
                   NoRecord)
        popped(i) ==
            removed(SubSeq(repo.records, 1, i - 1)
                        \o SubSeq(repo.records, i + 1, Len(repo.records)))
    IN  IF key \notin DOMAIN repo.index
        THEN Result("KeyError", repo, NoRecord)
        ELSE popped(repo.index[key] + 1)

----------------------------------------------------------------------------
(* The JSON document: EnhancedJSONEncoder on store(), json.load and        *)
(* dacite.from_dict on load().                                             *)

(* datetime.isoformat(timespec="seconds"): the text keeps whole seconds.   *)
isoformat(t) == t \div Precision

(* datetime_from_iso_string: the datetime of a text of whole seconds.      *)
datetime_from_iso_string(iso_string) == iso_string * Precision

(* A metadata timestamp is a datetime (set by a mutation) or the text read *)
(* from a document.                                                        *)
NoStamp == [kind |-> NA, v |-> 0]

(* EnhancedJSONEncoder.default on a record: dataclasses.asdict, then the   *)
(* datetime as text.  The JSON object keeps no class.                      *)
EnhancedJSONEncoder(o) ==
    [o EXCEPT !.cls = "dict", !.who.wcls = "dict", !.when = isoformat(o.when)]

json_metadata(m) ==
    IF m.updated.kind = "datetime"
    THEN [m EXCEPT !.updated = [kind |-> "str", v |-> isoformat(m.updated.v)]]
    ELSE m

(* Declared fields of the record classes, in dataclass order. *)
fields(data_class) ==
    LET PublicNAAN_fields ==
            <<"what", "where", "target", "when", "who", "na_policy", "test_identifier",
              "service_provider", "purpose", "rtype">>
        PublicNAANShoulder_fields ==
            <<"shoulder", "naan", "what", "who", "where", "target", "when", "na_policy",
              "test_identifier", "rtype">>
        private == <<"contact", "alternate_contact", "comments", "provider">>
    IN  CASE data_class = "NAAN" -> PublicNAAN_fields \o <<"why">> \o private
          [] data_class = "PublicNAAN" -> PublicNAAN_fields
          [] data_class = "NAANShoulder" -> PublicNAANShoulder_fields \o private
          [] data_class = "PublicNAANShoulder" -> PublicNAANShoulder_fields

Range(seq) == {seq[i] : i \in 1..Len(seq)}

(* Fields annotated typing.Optional[...]; every other field rejects None.  *)
OptionalFields ==
    {"test_identifier", "service_provider", "alternate_contact", "comments", "provider"}

(* Default of a field left out of the document ("NA": no default). *)
default_value(data_class, f) ==
    CASE f \in {"test_identifier", "service_provider", "contact",
                "alternate_contact", "comments", "provider"} -> None
      [] f = "purpose" -> "unspecified"
      [] f = "why" -> "ARK"
      [] f = "rtype" -> data_class
      [] OTHER -> NA

(* dacite's verdict on one field of the document. *)
field_error(data_class, f, data) ==
    CASE f = "who" ->
            IF data.who.name \in {None, NA} THEN "WrongTypeError" ELSE "none"
      [] f = "target" ->
            IF data.target.url \in {None, NA} THEN "WrongTypeError" ELSE "none"
      [] f = "na_policy" ->
            IF {data.na_policy.orgtype, data.na_policy.policy,
                data.na_policy.tenure} \cap {None, NA} # {}
            THEN "WrongTypeError" ELSE "none"
      [] f = "when" -> "none"
      [] OTHER ->
            IF data[f] = NA
            THEN IF default_value(data_class, f) = NA /\
                    ~(f = "what" /\ data_class \in ShoulderClasses)
                 THEN "MissingValueError" ELSE "none"
            ELSE IF data[f] = None /\ f \notin OptionalFields
                 THEN "WrongTypeError" ELSE "none"

RECURSIVE first_error(_, _, _)
first_error(data_class, fs, data) ==
    IF fs = <<>> THEN "none"
    ELSE LET e == field_error(data_class, Head(fs), data)
         IN  IF e # "none" THEN e ELSE first_error(data_class, Tail(fs), data)

(* The value dacite builds for a string field. *)
field_value(data_class, f, data) ==
    IF f \notin Range(fields(data_class)) THEN NA
    ELSE IF data[f] = NA
    THEN IF f = "what" THEN data.naan \o "/" \o data.shoulder
         ELSE default_value(data_class, f)
    ELSE data[f]

who_from_dict(who_class, data) ==
    [wcls |-> who_class, name |-> data.name,
     name_native |-> IF data.name_native = NA THEN None ELSE data.name_native,
     acronym |-> IF data.acronym = NA THEN None ELSE data.acronym,
     address |-> IF who_class = "PublicNAAN_who" THEN NA
                 ELSE IF data.address = NA THEN None ELSE data.address]

from_dict(data_class, data) ==
    LET e == first_error(data_class, fields(data_class), data)
    IN  IF e # "none" THEN Outcome(e, NoRecord)
        ELSE Outcome("none",
            [f \in DOMAIN data |->
                CASE f = "cls" -> data_class
                  [] f = "when" -> datetime_from_iso_string(data.when)
                  [] f = "target" -> data.target
                  [] f = "na_policy" -> data.na_policy
                  [] f = "who" ->
                        who_from_dict(IF data_class \in PrivateClasses
                                      THEN "NAAN_who" ELSE "PublicNAAN_who", data.who)
                  [] OTHER -> field_value(data_class, f, data)])

(* entryFromDict: the record (NoRecord for Python's None) or the exception *)
(* dacite raises.                                                          *)
entryFromDict(data) ==
    CASE data.rtype \in {None, NA} -> Outcome("none", NoRecord)
      [] data.rtype = "NAAN" -> from_dict("NAAN", data)
      [] data.rtype = "PublicNAAN" -> from_dict("PublicNAAN", data)
      [] data.rtype = "NAANShoulder" -> from_dict("NAANShoulder", data)
      [] data.rtype = "PublicNAANShoulder" -> from_dict("NAANShoulder", data)
      [] OTHER -> Outcome("none", NoRecord)

(* The file at _store_path: absent, or the document store() wrote. *)
NoFile == [state |-> "absent", metadata |-> <<>>, data |-> <<>>]

RECURSIVE load_entries(_, _)
(* The loop of load(): the records appended so far and the exception that  *)
(* ended the loop, if any.                                                 *)
load_entries(data, acc) ==
    IF data = <<>> THEN [err |-> "none", records |-> acc]
    ELSE LET entry == entryFromDict(Head(data))
         IN  IF entry.err # "none" THEN [err |-> entry.err, records |-> acc]
             ELSE IF entry.rec = NoRecord THEN load_entries(Tail(data), acc)
             ELSE load_entries(Tail(data), Append(acc, entry.rec))

load(repo, file) ==
    IF file.state = "absent"
    THEN Result("FileNotFoundError", Repo(<<>>, _update_index(<<>>), repo.metadata), NoRecord)
    ELSE LET l == load_entries(file.data, <<>>)
         IN  IF l.err # "none"
             THEN Result(l.err, Repo(l.records, _update_index(<<>>), file.metadata), NoRecord)
             ELSE Result("none", Repo(l.records, _update_index(l.records), file.metadata), NoRecord)

(* store(as_public): the document written to _store_path. *)
store(repo, pub) ==
    [state |-> "ok",
     metadata |-> json_metadata(repo.metadata),
     data |-> [i \in 1..Len(repo.records) |->
                 EnhancedJSONEncoder(IF pub THEN as_public(repo.records[i])
                                     ELSE repo.records[i])]]

----------------------------------------------------------------------------
(* The state machine: one action per repository call.                      *)

NaanEntries(whats, whens) ==
    {NAAN(w, p, t) : w \in whats, p \in 1..MaxProfile, t \in whens}
    \cup {PublicNAAN(w, p, t) : w \in whats, p \in 1..MaxProfile, t \in whens}

ShoulderEntries(naans, shoulders, whens) ==
    {NAANShoulder(n, sh, p, t) :
        n \in naans, sh \in shoulders, p \in 1..MaxProfile, t \in whens}
    \cup {PublicNAANShoulder(n, sh, p, t) :
        n \in naans, sh \in shoulders, p \in 1..MaxProfile, t \in whens}

(* Every sample record, and the records of the two identifiers the         *)
(* scenarios store: NAAN 12345 and its shoulder 12345/foo.                  *)
Entries ==
    NaanEntries(NaanVals, WhenVals) \cup ShoulderEntries(NaanVals, ShoulderVals, WhenVals)

StoredEntries(whens) ==
    NaanEntries({"12345"}, whens) \cup ShoulderEntries({"12345"}, {"foo"}, whens)

Keys == {"12345", "12345/foo", "99999", "00000"}

repository == Repo(records, index, metadata)

(* The last call: its arguments (src is the text an ingestion call is      *)
(* given), the exception it raised, and what it returned (n is the count   *)
(* an ingestion call returns).                                             *)
Call(op, key, pub, entry, err, out) ==
    [op |-> op, key |-> key, pub |-> pub, entry |-> entry, err |-> err, out |-> out,
     src |-> <<>>, n |-> 0]

(* The repository after a call, and the call as the last one made. *)
Return(op, key, pub, entry, res) ==
    /\ records' = res.repo.records
    /\ index' = res.repo.index
    /\ metadata' = res.repo.metadata
    /\ last' = Call(op, key, pub, entry, res.err, res.out)

Init ==
    /\ records = <<>>
    /\ index = _update_index(<<>>)
    /\ metadata = [version |-> "1.0", updated |-> NoStamp]
    /\ now = Precision
    /\ disk = NoFile
    /\ last = Call("init", None, FALSE, NoRecord, "none", NoRecord)
    /\ candidate_naans_file = <<>>
    /\ allocated = <<>>

(* Time passes between calls. *)
Tick ==
    /\ now < Precision + MaxClock
    /\ now' = now + 1
    /\ last' = Call("tick", None, FALSE, NoRecord, "none", NoRecord)
    /\ UNCHANGED <<records, index, metadata, disk, candidate_naans_file, allocated>>

Insert(entry) ==
    LET res == insert(repository, entry, now)
    IN  /\ Len(res.repo.records) <= MaxRecords
        /\ Return("insert", identifier(entry), FALSE, entry, res)
        /\ UNCHANGED <<now, disk, candidate_naans_file, allocated>>

Update(entry) ==
    /\ Return("update", identifier(entry), FALSE, entry, update(repository, entry, now))
    /\ UNCHANGED <<now, disk, candidate_naans_file, allocated>>

Upsert(entry) ==
    LET res == upsert(repository, entry, now)
    IN  /\ Len(res.repo.records) <= MaxRecords
        /\ Return("upsert", identifier(entry), FALSE, entry, res)
        /\ UNCHANGED <<now, disk, candidate_naans_file, allocated>>

Delete(key) ==
    /\ Return("delete", key, FALSE, NoRecord, delete(repository, key, now))
    /\ UNCHANGED <<now, disk, candidate_naans_file, allocated>>

Read(key, pub) ==
    /\ Return("read", key, pub, NoRecord, read(repository, key, pub))
    /\ UNCHANGED <<now, disk, candidate_naans_file, allocated>>

(* repo.read(key).update(entry): update() called on the stored object.     *)
RecordUpdate(key, entry) ==
    /\ key \in DOMAIN index
    /\ LET o == record_update(records[index[key] + 1], entry, now)
       IN  /\ records' = [records EXCEPT ![index[key] + 1] = o.rec]
           /\ last' = Call("record_update", key, FALSE, entry, o.err, o.rec)
    /\ UNCHANGED <<index, metadata, now, disk, candidate_naans_file, allocated>>

Store(pub) ==
    /\ disk' = store(repository, pub)
    /\ last' = Call("store", None, pub, NoRecord, "none", NoRecord)
    /\ UNCHANGED <<records, index, metadata, now, candidate_naans_file, allocated>>

Load ==
    /\ Return("load", None, FALSE, NoRecord, load(repository, disk))
    /\ UNCHANGED <<now, disk, candidate_naans_file, allocated>>

(* Spec: the create/read/update/delete calls on a repository that starts   *)
(* empty, over two NAANs and one shoulder.                                 *)
CrudEntries == StoredEntries({1}) \cup {NAAN("99999", 1, 1)}

Next ==
    \/ \E entry \in CrudEntries : Insert(entry)
    \/ \E entry \in CrudEntries : Update(entry)
    \/ \E entry \in CrudEntries : Upsert(entry)
    \/ \E key \in Keys : Delete(key)
    \/ \E key \in Keys, pub \in BOOLEAN : Read(key, pub)

Spec == Init /\ [][Next]_vars

(* SpecUpdate: updates of one stored NAAN and one stored shoulder, with    *)
(* the clock running and with update() also called on the stored object.   *)
UpdateEntries == StoredEntries(WhenVals)

NextUpdate ==
    \/ Tick
    \/ \E entry \in UpdateEntries : Len(records) = 0 /\ Insert(entry)
    \/ \E entry \in UpdateEntries : Update(entry)
    \/ \E key \in Keys, entry \in Entries : RecordUpdate(key, entry)

SpecUpdate == Init /\ [][NextUpdate]_vars

(* SpecStore: a repository built by inserts, updates and deletes, then     *)
(* written with store() and read back with load().                         *)
StoreEntries == StoredEntries({Precision + 1})

NextStore ==
    \/ \E entry \in StoreEntries : disk = NoFile /\ Insert(entry)
    \/ \E entry \in StoreEntries : disk = NoFile /\ Update(entry)
    \/ \E key \in Keys : disk = NoFile /\ Delete(key)
    \/ \E pub \in BOOLEAN : Store(pub)
    \/ Load

SpecStore == Init /\ [][NextStore]_vars

(* SpecUpsert: upserts of one NAAN and one shoulder, each call possibly    *)
(* made again with the same record, while time passes between the calls.   *)
Wait ==
    /\ now < Precision + MaxClock
    /\ now' = now + 1
    /\ UNCHANGED <<records, index, metadata, disk, last, candidate_naans_file, allocated>>

(* upsert(x) called again, after an upsert(x) that returned. *)
UpsertAgain ==
    /\ last.op \in {"upsert", "upsert again"}
    /\ last.err = "none"
    /\ Return("upsert again", last.key, FALSE, last.entry,
              upsert(repository, last.entry, now))
    /\ UNCHANGED <<now, disk, candidate_naans_file, allocated>>

NextUpsert ==
    \/ Wait
    \/ \E entry \in UpdateEntries : Upsert(entry)
    \/ UpsertAgain

SpecUpsert == Init /\ [][NextUpsert]_vars

(* SpecPublic: public and private records of one NAAN and one shoulder,    *)
(* read with and without as_public and written with store().               *)
NextPublic ==
    \/ \E entry \in StoredEntries({1}) : Insert(entry)
    \/ \E key \in Keys, pub \in BOOLEAN : Read(key, pub)
    \/ \E pub \in BOOLEAN : Store(pub)

SpecPublic == Init /\ [][NextPublic]_vars

(* SpecAlias: the caller keeps the record it passed to update() and        *)
(* assigns to the url and http_code of that record's target afterwards.   *)
(* Whether the stored record sees the assignment depends on how update()  *)
(* took the target: NAAN.update binds self.target to record.target, one   *)
(* Target object under two names; the other three update methods call     *)
(* Target.update, which copies url and http_code into the stored record's *)
(* own Target.                                                             *)
target_is_incoming(self) == self.cls = "NAAN"

TargetEdits == {[url |-> u, http_code |-> c] : u \in {"url0", "url1"}, c \in {301, 307}}

SetIncomingTarget(t) ==
    /\ last.op = "update"
    /\ last.err = "none"
    /\ last.entry.target # t
    /\ last' = [last EXCEPT !.op = "set_target", !.entry.target = t]
    /\ records' = IF target_is_incoming(records[index[last.key] + 1])
                  THEN [records EXCEPT ![index[last.key] + 1].target = t]
                  ELSE records
    /\ UNCHANGED <<index, metadata, now, disk, candidate_naans_file, allocated>>

NextAlias ==
    \/ \E entry \in UpdateEntries : Len(records) = 0 /\ Insert(entry)
    \/ \E entry \in UpdateEntries : Update(entry)
    \/ \E t \in TargetEdits : SetIncomingTarget(t)

SpecAlias == Init /\ [][NextAlias]_vars

----------------------------------------------------------------------------
(* Text.  A Python str handled character by character is a sequence of     *)
(* one-character strings; text(s) is the same str as a TLA+ string.        *)

RECURSIVE text(_)
text(s) == IF s = <<>> THEN "" ELSE Head(s) \o text(Tail(s))

isspace(c) == c \in {" ", "\t", "\n", "\r"}

isdigit(c) == c \in {"0", "1", "2", "3", "4", "5", "6", "7", "8", "9"}

RECURSIVE lstrip(_)
lstrip(s) == IF s # <<>> /\ isspace(Head(s)) THEN lstrip(Tail(s)) ELSE s

RECURSIVE rstrip(_)
rstrip(s) ==
    IF s # <<>> /\ isspace(s[Len(s)]) THEN rstrip(SubSeq(s, 1, Len(s) - 1)) ELSE s

strip(s) == lstrip(rstrip(s))

(* s[i:] *)
From(s, i) == SubSeq(s, i, Len(s))

(* True when sub occurs in s at position i. *)
At(s, i, sub) ==
    /\ i >= 1
    /\ i + Len(sub) - 1 <= Len(s)
    /\ SubSeq(s, i, i + Len(sub) - 1) = sub

(* str.find, 1-based; 0 when sub does not occur in s. *)
find(s, sub) ==
    IF \E i \in 1..Len(s) : At(s, i, sub)
    THEN CHOOSE i \in 1..Len(s) :
            At(s, i, sub) /\ \A j \in 1..(i - 1) : ~At(s, j, sub)
    ELSE 0

endswith(s, sub) == At(s, Len(s) - Len(sub) + 1, sub)

(* str.split(sep) for a non-empty separator. *)
RECURSIVE split(_, _)
split(s, sep) ==
    LET cut(i) ==
            IF i = 0
            THEN <<s>>
            ELSE <<SubSeq(s, 1, i - 1)>> \o split(From(s, i + Len(sep)), sep)
    IN  cut(find(s, sep))

(* str.split(sep, 1) *)
split1(s, sep) ==
    LET cut(i) ==
            IF i = 0 THEN <<s>> ELSE <<SubSeq(s, 1, i - 1), From(s, i + Len(sep))>>
    IN  cut(find(s, sep))

(* str.split(): the maximal runs of non-whitespace characters. *)
RECURSIVE split_ws(_)
split_ws(s) ==
    LET cut(t, n) == <<SubSeq(t, 1, n)>> \o split_ws(From(t, n + 1))
        word(t) ==
            IF t = <<>> THEN <<>>
            ELSE IF \E i \in 1..Len(t) : isspace(t[i])
            THEN cut(t, (CHOOSE i \in 1..Len(t) :
                            isspace(t[i]) /\ \A j \in 1..(i - 1) : ~isspace(t[j])) - 1)
            ELSE cut(t, Len(t))
    IN  word(lstrip(s))

(* str.replace(old, new) *)
RECURSIVE replace(_, _, _)
replace(s, old, new) ==
    LET cut(i) ==
            IF i = 0
            THEN s
            ELSE SubSeq(s, 1, i - 1) \o new \o replace(From(s, i + Len(old)), old, new)
    IN  cut(find(s, old))

(* sep.join(parts) *)
RECURSIVE str_join(_, _)
str_join(sep, parts) ==
    IF parts = <<>> THEN <<>>
    ELSE IF Len(parts) = 1 THEN parts[1]
    ELSE parts[1] \o sep \o str_join(sep, Tail(parts))

(* re.split("\r\n?|\n", txt) *)
RECURSIVE re_split_lines(_)
re_split_lines(txt) ==
    LET eol(i) == txt[i] \in {"\r", "\n"}
        cut(i) ==
            <<SubSeq(txt, 1, i - 1)>>
                \o re_split_lines(From(txt, i + (IF At(txt, i, <<"\r", "\n">>)
                                                 THEN 2 ELSE 1)))
    IN  IF \E j \in 1..Len(txt) : eol(j)
        THEN cut(CHOOSE j \in 1..Len(txt) : eol(j) /\ \A h \in 1..(j - 1) : ~eol(h))
        ELSE <<txt>>

(* The printable ASCII characters, from code 32 (the grave accent, which   *)
(* a TLA+ string cannot hold, is named by its code).                       *)
Ascii ==
    <<
       " ", "!", "\"", "#", "$", "%", "&", "'", "(", ")", "*", "+",
       ",", "-", ".", "/", "0", "1", "2", "3", "4", "5", "6", "7",
       "8", "9", ":", ";", "<", "=", ">", "?", "@", "A", "B", "C",
       "D", "E", "F", "G", "H", "I", "J", "K", "L", "M", "N", "O",
       "P", "Q", "R", "S", "T", "U", "V", "W", "X", "Y", "Z", "[",
       "\\", "]", "^", "_", "chr96", "a", "b", "c", "d", "e", "f", "g",
       "h", "i", "j", "k", "l", "m", "n", "o", "p", "q", "r", "s",
       "t", "u", "v", "w", "x", "y", "z", "{", "|", "}", "~" >>

HexDigits == <<"0", "1", "2", "3", "4", "5", "6", "7", "8", "9",
               "a", "b", "c", "d", "e", "f", "A", "B", "C", "D", "E", "F">>

ishex(c) == \E n \in 1..Len(HexDigits) : HexDigits[n] = c

(* int(c, 16) for one hexadecimal digit *)
hexval(c) ==
    LET value(n) == IF n > 16 THEN n - 7 ELSE n - 1
    IN  value(CHOOSE n \in 1..Len(HexDigits) : HexDigits[n] = c)

(* chr(n); a character outside printable ASCII is named by its code. *)
chr(n) ==
    CASE n \in 32..126 -> Ascii[n - 31]
      [] n = 9 -> "\t"
      [] n = 10 -> "\n"
      [] n = 13 -> "\r"
      [] OTHER -> "chr" \o ToString(n)

(* str.lower() on ASCII letters *)
lower(s) ==
    [i \in 1..Len(s) |->
        IF \E n \in 66..91 : Ascii[n - 32] = s[i]
        THEN Ascii[(CHOOSE n \in 66..91 : Ascii[n - 32] = s[i])]
        ELSE s[i]]

----------------------------------------------------------------------------
(* The ANVL parser (lib_naan/anvl.py).  A parsed value is a str or a list  *)
(* of values; a dict is the sequence of its items in insertion order.      *)

Str(s) == [t |-> "str", s |-> s, items |-> <<>>]
List(items) == [t |-> "list", s |-> <<>>, items |-> items]

(* len(v) *)
len(v) == IF v.t = "str" THEN Len(v.s) ELSE Len(v.items)

(* k in d, and the position of k in d *)
has(d, k) == \E i \in 1..Len(d) : d[i].k = k
pos(d, k) == CHOOSE i \in 1..Len(d) : d[i].k = k

(* d[k] = v *)
setitem(d, k, v) ==
    IF has(d, k) THEN [d EXCEPT ![pos(d, k)].v = v] ELSE Append(d, [k |-> k, v |-> v])

(* d.pop(k) *)
pop(d, k) ==
    LET without(i) == SubSeq(d, 1, i - 1) \o SubSeq(d, i + 1, Len(d))
    IN  without(pos(d, k))

(* _decode: every %XX becomes the character with that code; a % that two   *)
(* hexadecimal digits do not follow raises AnvlParseException.             *)
RECURSIVE _decode(_)
_decode(s) ==
    LET cons(c, r) == [err |-> r.err, s |-> <<c>> \o r.s]
    IN  IF s = <<>> THEN [err |-> "none", s |-> <<>>]
        ELSE IF Head(s) # "%" THEN cons(Head(s), _decode(Tail(s)))
        ELSE IF Len(s) >= 3 /\ ishex(s[2]) /\ ishex(s[3])
        THEN cons(chr(16 * hexval(s[2]) + hexval(s[3])), _decode(From(s, 4)))
        ELSE [err |-> "AnvlParseException", s |-> <<>>]

parse_value(v) ==
    LET value(parts) ==
            IF Len(parts) = 1
            THEN Str(v)
            ELSE List([i \in 1..Len(parts) |-> Str(strip(parts[i]))])
    IN  value(split(v, <<"|">>))

(* The locals of parse(): d, k and k0 (has_k, has_k0 false stand for None) *)
(* and the exception raised so far.                                        *)
ParseState(err, d, has_k, k, has_k0, k0) ==
    [d |-> d, err |-> err, has_k |-> has_k, has_k0 |-> has_k0, k |-> k, k0 |-> k0]

(* raise err: the locals as they are, with the exception *)
Raise(st, err) == [st EXCEPT !.err = err]

(* A continuation line: d[k] takes ll, or has " " + ll added; += on a list *)
(* extends it with the characters of the str.                              *)
parse_continuation(st, l) ==
    LET extend(cur, ll, add) ==
            IF ll = <<>> THEN st
            ELSE IF cur = Str(<<>>) THEN [st EXCEPT !.d = setitem(st.d, st.k, Str(ll))]
            ELSE IF cur.t = "str"
            THEN [st EXCEPT !.d = setitem(st.d, st.k, Str(cur.s \o add))]
            ELSE [st EXCEPT !.d = setitem(st.d, st.k,
                     List(cur.items \o [i \in 1..Len(add) |-> Str(<<add[i]>>)]))]
        stripped(ll) == extend(st.d[pos(st.d, st.k)].v, ll, <<" ">> \o ll)
        decoded(dec) ==
            IF dec.err # "none" THEN Raise(st, dec.err) ELSE stripped(strip(dec.s))
    IN  IF ~st.has_k THEN Raise(st, "AnvlParseException") ELSE decoded(_decode(l))

(* A label line: split at the first colon, decode and strip both parts. *)
parse_label(st, l) ==
    LET keyed(k) ==
            [st EXCEPT !.has_k = TRUE, !.k = k, !.has_k0 = TRUE,
                       !.k0 = IF st.has_k0 THEN st.k0 ELSE k]
        listed(cur) == IF cur.t = "list" THEN cur.items ELSE <<cur>>
        labelled(k, v) ==
            IF Len(k) = 0 THEN Raise(keyed(k), "AnvlParseException")
            ELSE IF has(st.d, k)
            THEN [keyed(k) EXCEPT !.d = setitem(st.d, k,
                     List(Append(listed(st.d[pos(st.d, k)].v), v)))]
            ELSE [keyed(k) EXCEPT !.d = setitem(st.d, k, v)]
        decoded(dk, dv) ==
            IF dk.err # "none" THEN Raise(st, dk.err)
            ELSE IF dv.err # "none" THEN Raise(st, dv.err)
            ELSE labelled(strip(dk.s), parse_value(strip(dv.s)))
    IN  IF find(l, <<":">>) = 0 THEN Raise(st, "AnvlParseException")
        ELSE decoded(_decode(split1(l, <<":">>)[1]), _decode(split1(l, <<":">>)[2]))

parse_line(st, line) ==
    IF Len(rstrip(line)) = 0 THEN [st EXCEPT !.has_k = FALSE, !.k = <<>>]
    ELSE IF rstrip(line)[1] = "#" THEN st
    ELSE IF isspace(rstrip(line)[1]) THEN parse_continuation(st, rstrip(line))
    ELSE parse_label(st, rstrip(line))

RECURSIVE parse_lines(_, _)
parse_lines(st, lines) ==
    IF lines = <<>> \/ st.err # "none"
    THEN st
    ELSE parse_lines(parse_line(st, Head(lines)), Tail(lines))

(* The value parse() returns, or the exception it raises: flat, d is the   *)
(* dict returned; otherwise the dict returned is {k0: d}.                  *)
Block(err, flat, k0, d) == [d |-> d, err |-> err, flat |-> flat, k0 |-> k0]

parse_last_label(lines) ==
    LET result(st) ==
            IF st.err # "none" THEN Block(st.err, TRUE, <<>>, <<>>)
            ELSE IF ~st.has_k0 THEN Block("KeyError", TRUE, <<>>, <<>>)
            ELSE IF len(st.d[Len(st.d)].v) > 0
            THEN Block("none", TRUE, st.k0, st.d)
            ELSE Block("none", FALSE, st.k0, pop(st.d, st.k0))
    IN  result(parse_lines(ParseState("none", <<>>, FALSE, <<>>, FALSE, <<>>), lines))

parse(lines) ==
    LET result(st) ==
            IF st.err # "none" THEN Block(st.err, TRUE, <<>>, <<>>)
            ELSE IF ~st.has_k0 THEN Block("KeyError", TRUE, <<>>, <<>>)
            ELSE IF len(st.d[pos(st.d, st.k0)].v) > 0
            THEN Block("none", TRUE, st.k0, st.d)
            ELSE Block("none", FALSE, st.k0, pop(st.d, st.k0))
    IN  result(parse_lines(ParseState("none", <<>>, FALSE, <<>>, FALSE, <<>>), lines))

RECURSIVE block_lines_no_final(_, _)
block_lines_no_final(lines, block) ==
    IF lines = <<>>
    THEN <<>>
    ELSE LET line == Head(lines)
         IN  IF Len(line) > 0 /\ line[1] = "#"
             THEN block_lines_no_final(Tail(lines), block)
             ELSE IF Len(line) = 0
             THEN (IF Len(block) > 0 THEN <<block>> ELSE <<>>)
                      \o block_lines_no_final(Tail(lines), <<>>)
             ELSE block_lines_no_final(Tail(lines), Append(block, line))

(* The blocks parseBlocks hands to parse(), in order: the lines between    *)
(* empty lines, without the lines that start with #.                       *)
RECURSIVE block_lines(_, _)
block_lines(lines, block) ==
    IF lines = <<>>
    THEN IF Len(block) > 0 THEN <<block>> ELSE <<>>
    ELSE LET line == Head(lines)
         IN  IF Len(line) > 0 /\ line[1] = "#"
             THEN block_lines(Tail(lines), block)
             ELSE IF Len(line) = 0
             THEN (IF Len(block) > 0 THEN <<block>> ELSE <<>>)
                      \o block_lines(Tail(lines), <<>>)
             ELSE block_lines(Tail(lines), Append(block, line))

(* parseBlocks is a generator: block i is parsed when the caller asks for  *)
(* it, and an exception parse() raises is raised in the caller's loop.     *)
parseBlocks(txt) ==
    [i \in 1..Len(block_lines(re_split_lines(txt), <<>>)) |->
        parse(block_lines(re_split_lines(txt), <<>>)[i])]

----------------------------------------------------------------------------
(* Conversions of lib_naan/anvl.py.                                        *)

alldigits(s) == Len(s) > 0 /\ \A i \in 1..Len(s) : isdigit(s[i])

(* The number a run of decimal digits writes. *)
RECURSIVE number(_)
number(s) ==
    IF s = <<>> THEN 0
    ELSE 10 * number(SubSeq(s, 1, Len(s) - 1))
            + (CHOOSE n \in 0..9 : ToString(n) = s[Len(s)])

(* int(s): an optional sign, then digits in groups a single underscore     *)
(* separates; ok is false where int raises ValueError.                     *)
int(s) ==
    LET signed == Len(s) > 0 /\ s[1] \in {"+", "-"}
        value(groups) ==
            IF \A i \in 1..Len(groups) : alldigits(groups[i])
            THEN [ok |-> TRUE,
                  n |-> (IF signed /\ s[1] = "-" THEN -1 ELSE 1)
                            * number(str_join(<<>>, groups))]
            ELSE [ok |-> FALSE, n |-> 0]
    IN  value(split(IF signed THEN Tail(s) ELSE s, <<"_">>))

(* date.toordinal() *)
toordinal(y, m, d) ==
    LET isleap == y % 4 = 0 /\ (y % 100 # 0 \/ y % 400 = 0)
        before == <<0, 31, 59, 90, 120, 151, 181, 212, 243, 273, 304, 334>>
        days_before_month == before[m] + (IF m > 2 /\ isleap THEN 1 ELSE 0)
        days_before_year ==
            (y - 1) * 365 + (y - 1) \div 4 - (y - 1) \div 100 + (y - 1) \div 400
    IN  days_before_year + days_before_month + d

(* The number of days of month m of year y. *)
days_in_month(y, m) ==
    IF m = 12 THEN 31 ELSE toordinal(y, m + 1, 1) - toordinal(y, m, 1)

(* The clock reads 0 at midnight UTC of the first day of this year. *)
EpochYear == 2000
SecondsPerDay == 86400

(* datestring2date: strptime(dstr, "%Y.%m.%d") at UTC.  %Y is four digits, *)
(* %m one or two digits from 1 to 12, %d one or two digits (or a space and *)
(* a digit) from 1 to 31; err is the exception raised.                     *)
datestring2date(v) ==
    LET date(Y, m, d) ==
            IF Y >= 1 /\ d <= days_in_month(Y, m)
            THEN [err |-> "none",
                  when |-> (toordinal(Y, m, d) - toordinal(EpochYear, 1, 1))
                               * SecondsPerDay * Precision]
            ELSE [err |-> "ValueError", when |-> 0]
        strptime(parts) ==
            LET padded == Len(parts[3]) = 2 /\ parts[3][1] = " "
                d == IF padded THEN Tail(parts[3]) ELSE parts[3]
            IN  IF /\ Len(parts) = 3
                   /\ Len(parts[1]) = 4 /\ alldigits(parts[1])
                   /\ Len(parts[2]) \in 1..2 /\ alldigits(parts[2])
                   /\ number(parts[2]) \in 1..12
                   /\ Len(d) \in 1..2 /\ alldigits(d) /\ number(d) \in 1..31
                   /\ padded => number(d) \in 1..9
                THEN date(number(parts[1]), number(parts[2]), number(d))
                ELSE [err |-> "ValueError", when |-> 0]
    IN  IF v.t # "str" THEN [err |-> "TypeError", when |-> 0]
        ELSE strptime(split(v.s, <<".">>))

(* WHO_PATTERN.split(who): split at each whitespace, "(=)", whitespace. *)
RECURSIVE who_split(_)
who_split(s) ==
    LET hit(i) == /\ i + 4 <= Len(s)
                  /\ isspace(s[i])
                  /\ SubSeq(s, i + 1, i + 3) = <<"(", "=", ")">>
                  /\ isspace(s[i + 4])
    IN  IF \E i \in 1..Len(s) : hit(i)
        THEN LET i == CHOOSE i \in 1..Len(s) : hit(i) /\ \A j \in 1..(i - 1) : ~hit(j)
             IN  <<SubSeq(s, 1, i - 1)>> \o who_split(From(s, i + 5))
        ELSE <<s>>

(* split_who: a list is joined with " | " first (a list inside the list    *)
(* raises TypeError); name, acronym and name_native are set by the number  *)
(* of parts, and stay None for four parts or more.                         *)
split_who(v) ==
    LET res == [err |-> "none", name |-> None, acronym |-> None, name_native |-> None]
        named(who, parts) ==
            IF Len(parts) = 1 THEN [res EXCEPT !.name = text(who)]
            ELSE IF Len(parts) = 2
            THEN [res EXCEPT !.name = text(parts[1]), !.acronym = text(parts[2])]
            ELSE IF Len(parts) = 3
            THEN [res EXCEPT !.name_native = text(parts[1]), !.name = text(parts[2]),
                             !.acronym = text(parts[3])]
            ELSE res
        split_str(who) == named(who, who_split(who))
    IN  IF v.t = "str" THEN split_str(v.s)
        ELSE IF \E i \in 1..Len(v.items) : v.items[i].t = "list"
        THEN [res EXCEPT !.err = "TypeError"]
        ELSE split_str(str_join(<<" ", "|", " ">>,
                                [i \in 1..Len(v.items) |-> v.items[i].s]))

TARGET_OVERRIDES == << <<<<"n", "2", "t", ".", "n", "e", "t">>,
                        <<"a", "r", "k", "s", ".", "o", "r", "g">>>> >>

(* The replacements of adjust_path, in the order of the dict. *)
Replacements ==
    <<
        <<<<"$", "p", "i", "d">>,
          <<"$", "{", "p", "i", "d", "}">>>>,
        <<<<"$", "a", "r", "k", "p", "i", "d">>,
          <<"$", "{", "p", "i", "d", "}">>>>,
        <<<<"$", "{", "a", "r", "k", "p", "i", "d", "}">>,
          <<"$", "{", "p", "i", "d", "}">>>>,
        <<<<"$", "i", "d">>,
          <<"$", "{", "c", "o", "n", "t", "e", "n", "t", "}">>>>,
        <<<<"$", "{", "i", "d", "}">>,
          <<"$", "{", "c", "o", "n", "t", "e", "n", "t", "}">>>>,
        <<<<"$", "a", "r", "k", "i", "d">>,
          <<"$", "{", "p", "i", "d", "}">>>>,
        <<<<"$", "{", "a", "r", "k", "i", "d", "}">>,
          <<"$", "{", "p", "i", "d", "}">>>>,
        <<<<"$", "n", "l", "i", "d">>,
          <<"$", "{", "v", "a", "l", "u", "e", "}">>>>,
        <<<<"$", "{", "n", "l", "i", "d", "}">>,
          <<"$", "{", "v", "a", "l", "u", "e", "}">>>> >>

adjust_path(pstr0, include_slash) ==
    LET content == <<"$", "{", "c", "o", "n", "t", "e", "n", "t", "}">>
        (* the replacements whose first part occurs in pstr, by position *)
        found(pstr) == {i \in 1..Len(Replacements) : find(pstr, Replacements[i][1]) > 0}
        first(is) == CHOOSE i \in is : \A j \in is : i <= j
        adjusted(pstr, is) ==
            IF is # {}
            THEN replace(pstr, Replacements[first(is)][1], Replacements[first(is)][2])
            ELSE IF endswith(pstr, <<"a", "r", "k", ":">>) THEN pstr \o content
            ELSE IF endswith(pstr, <<"a", "r", "k", ":", "/">>) THEN pstr \o content
            ELSE (IF endswith(pstr, <<"/">>) THEN pstr ELSE pstr \o <<"/">>)
                     \o (IF include_slash THEN <<"a", "r", "k", ":", "/">>
                                          ELSE <<"a", "r", "k", ":">>)
                     \o content
    IN  adjusted(strip(pstr0), found(strip(pstr0)))

adjust_netloc(netloc) ==
    LET override(n) ==
            IF \E i \in 1..Len(TARGET_OVERRIDES) : TARGET_OVERRIDES[i][1] = n
            THEN TARGET_OVERRIDES[CHOOSE i \in 1..Len(TARGET_OVERRIDES) :
                                     TARGET_OVERRIDES[i][1] = n][2]
            ELSE n
    IN  override(lower(netloc))

(* urllib.parse.urlsplit(url, scheme=default) of a str that holds no       *)
(* whitespace.                                                             *)
urlsplit(url0, default) ==
    LET isalpha(c) == \E n \in 34..59 : c \in {Ascii[n], Ascii[n + 32]}
        scheme_char(c) == isalpha(c) \/ isdigit(c) \/ c \in {"+", "-", "."}
        (* i, the position of the first colon, when the characters before *)
        (* it can be a scheme; 0 otherwise                                *)
        scheme_end(i) ==
            IF i > 1 /\ isalpha(url0[1]) /\ \A j \in 1..(i - 1) : scheme_char(url0[j])
            THEN i ELSE 0
        scheme_of(i) == IF i > 0 THEN lower(SubSeq(url0, 1, i - 1)) ELSE default
        url_of(i) == IF i > 0 THEN From(url0, i + 1) ELSE url0
        (* the netloc: from "//" to the first of "/", "?" and "#" *)
        netloc_end(url) ==
            IF \E j \in 3..Len(url) : url[j] \in {"/", "?", "#"}
            THEN CHOOSE j \in 3..Len(url) :
                    /\ url[j] \in {"/", "?", "#"}
                    /\ \A h \in 3..(j - 1) : url[h] \notin {"/", "?", "#"}
            ELSE Len(url) + 1
        netloc_of(url) ==
            IF At(url, 1, <<"/", "/">>) THEN SubSeq(url, 3, netloc_end(url) - 1) ELSE <<>>
        rest_of(url) == IF At(url, 1, <<"/", "/">>) THEN From(url, netloc_end(url)) ELSE url
        (* the path, query and fragment of what follows the netloc *)
        result(scheme, netloc, f, q) ==
            [err |-> IF (find(netloc, <<"[">>) > 0) # (find(netloc, <<"]">>) > 0)
                     THEN "ValueError" ELSE "none",
             scheme |-> scheme, netloc |-> netloc, path |-> q[1],
             query |-> IF Len(q) = 2 THEN q[2] ELSE <<>>,
             fragment |-> IF Len(f) = 2 THEN f[2] ELSE <<>>]
        parts(scheme, netloc, f) == result(scheme, netloc, f, split1(f[1], <<"?">>))
    IN  parts(scheme_of(scheme_end(find(url0, <<":">>))),
              netloc_of(url_of(scheme_end(find(url0, <<":">>)))),
              split1(rest_of(url_of(scheme_end(find(url0, <<":">>)))), <<"#">>))

urlunsplit(scheme, netloc, path, query, fragment) ==
    LET uses_netloc ==
            {"", "ftp", "http", "gopher", "nntp", "telnet", "imap", "wais",
            "file", "mms", "https", "shttp", "snews", "prospero", "rtsp", "rtsps",
            "rtspu", "rsync", "svn", "svn+ssh", "sftp", "nfs", "git", "git+ssh",
            "ws", "wss"}
        with_fragment(u) == IF fragment # <<>> THEN u \o <<"#">> \o fragment ELSE u
        with_query(u) == with_fragment(IF query # <<>> THEN u \o <<"?">> \o query ELSE u)
        with_scheme(u) == with_query(IF scheme # <<>> THEN scheme \o <<":">> \o u ELSE u)
    IN  IF netloc # <<>> \/ (/\ scheme # <<>>
                             /\ text(scheme) \in uses_netloc
                             /\ ~At(path, 1, <<"/", "/">>))
        THEN with_scheme(<<"/", "/">> \o netloc
                             \o (IF path # <<>> /\ path[1] # "/"
                                 THEN <<"/">> \o path ELSE path))
        ELSE with_scheme(path)

DefaultCode == 302

(* urlstr2target(ustr): with more than one whitespace separated part, the  *)
(* first is the status code (kept at 302 when it is not a number) and the  *)
(* second is the URL.                                                      *)
urlstr2target(v) ==
    LET pid == <<"$", "{", "p", "i", "d", "}">>
        ustr_of(ustr, parts) == IF Len(parts) > 1 THEN parts[2] ELSE ustr
        code_of(parts, code) ==
            IF Len(parts) > 1 /\ code.ok THEN code.n ELSE DefaultCode
        target(ustr, http_code, url) ==
            IF find(ustr, <<"?">>) > 0 /\ ustr[Len(ustr)] \in {"=", "?"}
            THEN [err |-> "none", url |-> text(ustr \o pid), http_code |-> http_code]
            ELSE IF url.err # "none" THEN [err |-> url.err, url |-> "", http_code |-> 0]
            ELSE [err |-> "none",
                  url |-> text(urlunsplit(url.scheme, adjust_netloc(url.netloc),
                                          adjust_path(url.path, TRUE),
                                          url.query, url.fragment)),
                  http_code |-> http_code]
    IN  IF v.t # "str" THEN [err |-> "AttributeError", url |-> "", http_code |-> 0]
        ELSE target(ustr_of(strip(v.s), split_ws(strip(v.s))),
                    code_of(split_ws(strip(v.s)), int(Head(split_ws(strip(v.s))))),
                    urlsplit(ustr_of(strip(v.s), split_ws(strip(v.s))),
                             <<"h", "t", "t", "p", "s">>))

----------------------------------------------------------------------------
(* from_anvl_block.  A parsed value kept in a field is the TLA+ string of  *)
(* a str, and the repr of a list.                                          *)

RECURSIVE concat(_, _)
concat(sep, strs) ==
    IF strs = <<>> THEN ""
    ELSE IF Len(strs) = 1 THEN strs[1]
    ELSE strs[1] \o sep \o concat(sep, Tail(strs))

RECURSIVE repr(_)
repr(v) ==
    IF v.t = "str"
    THEN "'" \o text(v.s) \o "'"
    ELSE "[" \o concat(", ", [i \in 1..Len(v.items) |-> repr(v.items[i])]) \o "]"

pyval(v) == IF v.t = "str" THEN text(v.s) ELSE repr(v)

(* v[i], for i from 0, of a str or a list that is long enough *)
getitem(v, i) == IF v.t = "str" THEN Str(<<v.s[i + 1]>>) ELSE v.items[i + 1]

(* x if x != "" else None *)
or_none(v) == IF v = Str(<<>>) THEN None ELSE pyval(v)

(* The comments entry of res: None, the list of {label: value} dicts the   *)
(* "!" labels add to, or what a label "comments" put there.                *)
Comments(t, s, items) == [t |-> t, s |-> s, items |-> items]

comments_value(c) ==
    IF c.t = "None" THEN None
    ELSE IF c.t = "str" THEN c.s
    ELSE "[" \o concat(", ", c.items) \o "]"

(* The locals of from_anvl_block: the keys of res, the record its values   *)
(* build, whether a key names no field of the class, the comments, and     *)
(* _address; hashable is false when a key-forming field holds a list.      *)
Fab(err, keys, rec, unexpected, comments, address, hashable) ==
    [err |-> err, keys |-> keys, rec |-> rec, unexpected |-> unexpected,
     comments |-> comments, address |-> address, hashable |-> hashable]

(* The fields as the dataclass defaults leave them; a field without a      *)
(* default holds an empty value until its key is in res.                   *)
NAAN_defaults ==
    [cls |-> "NAAN", rtype |-> "NAAN", what |-> "", naan |-> NA, shoulder |-> NA,
     where |-> "", target |-> [url |-> "", http_code |-> DefaultCode], when |-> 0,
     who |-> [wcls |-> "NAAN_who", name |-> None, name_native |-> None,
              acronym |-> None, address |-> None],
     na_policy |-> [orgtype |-> "", policy |-> "", tenure |-> "", policy_url |-> None],
     test_identifier |-> None, service_provider |-> None,
     purpose |-> "unspecified", why |-> "ARK", contact |-> None,
     alternate_contact |-> None, comments |-> None, provider |-> None]

NAANShoulder_defaults ==
    [NAAN_defaults EXCEPT
        !.cls = "NAANShoulder", !.rtype = "NAANShoulder", !.naan = "", !.shoulder = "",
        !.service_provider = NA, !.purpose = NA, !.why = NA]

fab_who(res, v) ==
    LET set(w) ==
            IF w.err # "none" THEN Raise(res, w.err)
            ELSE [res EXCEPT !.keys = @ \cup {"who"},
                             !.rec.who = [NAAN_defaults.who EXCEPT
                                             !.name = w.name,
                                             !.name_native = w.name_native,
                                             !.acronym = w.acronym]]
    IN  set(split_who(v))

fab_when(res, v) ==
    LET set(d) ==
            IF d.err # "none" THEN Raise(res, d.err)
            ELSE [res EXCEPT !.keys = @ \cup {"when"}, !.rec.when = d.when]
    IN  set(datestring2date(v))

fab_where(res, v) ==
    LET set(res1, t) ==
            IF t.err # "none" THEN Raise(res1, t.err)
            ELSE [res1 EXCEPT !.keys = @ \cup {"target"},
                              !.rec.target = [url |-> t.url, http_code |-> t.http_code]]
    IN  set([res EXCEPT !.keys = @ \cup {"where"}, !.rec.where = pyval(v)],
            urlstr2target(v))

fab_how(res, v) ==
    IF len(v) < 4 THEN Raise(res, "IndexError")
    ELSE [res EXCEPT !.keys = @ \cup {"na_policy"},
                     !.rec.na_policy = [orgtype |-> pyval(getitem(v, 0)),
                                        policy |-> pyval(getitem(v, 1)),
                                        tenure |-> pyval(getitem(v, 2)),
                                        policy_url |-> or_none(getitem(v, 3))]]

(* The NAAN_contact object, written as its constructor call. *)
fab_contact(res, v) ==
    LET phone == IF len(v) > 4 THEN or_none(getitem(v, 4)) ELSE None
    IN  IF len(v) < 4 THEN Raise(res, "IndexError")
        ELSE [res EXCEPT !.keys = @ \cup {"contact"},
                         !.rec.contact =
                             "NAAN_contact(" \o concat(", ",
                                 <<pyval(getitem(v, 0)), or_none(getitem(v, 1)),
                                   or_none(getitem(v, 2)), or_none(getitem(v, 3)),
                                   phone>>) \o ")"]

(* A label that starts with "!" and has no branch of its own. *)
fab_comment(res, k, v) ==
    LET add(c, entry) ==
            IF c.t = "None" THEN [res EXCEPT !.comments = Comments("list", "", <<entry>>)]
            ELSE IF c.t = "list"
            THEN [res EXCEPT !.comments = Comments("list", "", Append(c.items, entry))]
            ELSE Raise(res, "AttributeError")
    IN  add(res.comments, "{'" \o text(k) \o "': " \o repr(v) \o "}")

(* The record with the field named f set to x. *)
setfield(rec, f, x) ==
    CASE f = "what" -> [rec EXCEPT !.what = x]
      [] f = "naan" -> [rec EXCEPT !.naan = x]
      [] f = "shoulder" -> [rec EXCEPT !.shoulder = x]
      [] f = "test_identifier" -> [rec EXCEPT !.test_identifier = x]
      [] f = "service_provider" -> [rec EXCEPT !.service_provider = x]
      [] f = "purpose" -> [rec EXCEPT !.purpose = x]
      [] f = "rtype" -> [rec EXCEPT !.rtype = x]
      [] f = "why" -> [rec EXCEPT !.why = x]
      [] f = "contact" -> [rec EXCEPT !.contact = x]
      [] f = "alternate_contact" -> [rec EXCEPT !.alternate_contact = x]
      [] f = "provider" -> [rec EXCEPT !.provider = x]

(* res[k] = v for any other label.  The labels target and na_policy, which *)
(* would put a str where the class holds an object, are not inputs of the  *)
(* model.                                                                  *)
fab_other(res, k, v, names) ==
    LET set(f, res1) ==
            IF f \in {"target", "na_policy"} THEN Raise(res, "OutOfModel")
            ELSE IF f = "comments"
            THEN [res1 EXCEPT !.comments =
                     IF v.t = "str" THEN Comments("str", text(v.s), <<>>)
                     ELSE Comments("list", "",
                                   [i \in 1..Len(v.items) |-> repr(v.items[i])])]
            ELSE IF f \notin names THEN [res1 EXCEPT !.unexpected = TRUE]
            ELSE [res1 EXCEPT
                     !.rec = setfield(res.rec, f, pyval(v)),
                     !.hashable = @ /\ (f \in {"what", "naan", "shoulder"} => v.t = "str")]
        named(f) == set(f, [res EXCEPT !.keys = @ \cup {f}])
    IN  named(text(k))

(* block.get("naa", {}): the dict under the label naa; a str or list there *)
(* has no items() (AttributeError); without the label, the empty dict.     *)
Label_naa == <<"n", "a", "a">>

block_data(block) ==
    IF block.flat
    THEN [err |-> IF has(block.d, Label_naa) THEN "AttributeError" ELSE "none",
          d |-> <<>>]
    ELSE [err |-> "none", d |-> IF block.k0 = Label_naa THEN block.d ELSE <<>>]

FabInit(rec) == Fab("none", {"comments", "provider"}, rec, FALSE,
                    Comments("None", "", <<>>), None, TRUE)

(* The keyword names the constructor of a class accepts beside those the   *)
(* branches set, and the fields of the class that have no default.         *)
init_names(cls) ==
    IF cls = "NAAN"
    THEN {"what", "test_identifier", "service_provider", "purpose", "rtype", "why",
          "contact", "alternate_contact", "provider"}
    ELSE {"shoulder", "naan", "test_identifier", "rtype", "contact",
          "alternate_contact", "provider"}

required(cls) ==
    IF cls = "NAAN"
    THEN {"what", "where", "target", "when", "who", "na_policy"}
    ELSE {"shoulder", "naan", "who", "where", "target", "when", "na_policy"}

(* for k, v in data.items(), until a branch raises *)
RECURSIVE NAAN_from_anvl_items(_, _)
NAAN_from_anvl_items(res, d) ==
    IF d = <<>> \/ res.err # "none"
    THEN res
    ELSE NAAN_from_anvl_items(
             CASE text(d[1].k) = "who" -> fab_who(res, d[1].v)
               [] text(d[1].k) = "when" -> fab_when(res, d[1].v)
               [] text(d[1].k) = "where" -> fab_where(res, d[1].v)
               [] text(d[1].k) = "how" -> fab_how(res, d[1].v)
               [] text(d[1].k) = "!contact" -> fab_contact(res, d[1].v)
               [] text(d[1].k) = "!why" ->
                      [res EXCEPT !.keys = @ \cup {"why"}, !.rec.why = pyval(d[1].v)]
               [] text(d[1].k) = "!address" -> [res EXCEPT !.address = pyval(d[1].v)]
               [] text(d[1].k) = "!provider" ->
                      [res EXCEPT !.rec.provider = pyval(d[1].v)]
               [] OTHER -> IF d[1].k[1] = "!" THEN fab_comment(res, d[1].k, d[1].v)
                           ELSE fab_other(res, d[1].k, d[1].v, init_names("NAAN")),
             Tail(d))

(* The constructor called with res as its keywords: TypeError for a key    *)
(* that names no field, and for a field without a default that res does    *)
(* not have.                                                               *)
construct(res, cls) ==
    IF res.unexpected \/ ~(required(cls) \subseteq res.keys)
    THEN Raise(res, "TypeError")
    ELSE [res EXCEPT !.rec.comments = comments_value(res.comments)]

(* The what of a shoulder block: scheme ":" naan "/" shoulder, where the   *)
(* scheme is ark in any case; unpacking any other number of parts raises   *)
(* ValueError.                                                             *)
RECURSIVE strip_slash(_)
strip_slash(s) ==
    IF s # <<>> /\ Head(s) = "/" THEN strip_slash(Tail(s))
    ELSE IF s # <<>> /\ s[Len(s)] = "/" THEN strip_slash(SubSeq(s, 1, Len(s) - 1))
    ELSE s

fab_what(res, v) ==
    LET set(ns) ==
            IF Len(ns) # 2 THEN Raise(res, "ValueError")
            ELSE [res EXCEPT !.keys = @ \cup {"naan", "shoulder"},
                             !.rec.naan = text(ns[1]), !.rec.shoulder = text(ns[2])]
        schemed(sv) ==
            IF Len(sv) # 2 THEN Raise(res, "ValueError")
            ELSE IF lower(sv[1]) # <<"a", "r", "k">> THEN Raise(res, "ValueError")
            ELSE set(split(strip_slash(sv[2]), <<"/">>))
    IN  IF v.t # "str" THEN Raise(res, "AttributeError")
        ELSE schemed(split(v.s, <<":">>))

(* for k, v in data.items(), until a branch raises *)
RECURSIVE NAANShoulder_from_anvl_items(_, _)
NAANShoulder_from_anvl_items(res, d) ==
    IF d = <<>> \/ res.err # "none"
    THEN res
    ELSE NAANShoulder_from_anvl_items(
             CASE text(d[1].k) = "what" -> fab_what(res, d[1].v)
               [] text(d[1].k) = "who" -> fab_who(res, d[1].v)
               [] text(d[1].k) = "when" -> fab_when(res, d[1].v)
               [] text(d[1].k) = "where" -> fab_where(res, d[1].v)
               [] text(d[1].k) = "how" -> fab_how(res, d[1].v)
               [] OTHER -> IF d[1].k[1] = "!" THEN fab_comment(res, d[1].k, d[1].v)
                           ELSE fab_other(res, d[1].k, d[1].v,
                                          init_names("NAANShoulder")),
             Tail(d))

NAAN_from_anvl_block(block) ==
    LET addressed(res) ==
            IF "who" \in res.keys
            THEN [res EXCEPT !.rec.who.address = res.address]
            ELSE res
        build(res) ==
            IF res.err # "none" THEN res
            ELSE IF "what" \in res.keys THEN construct(addressed(res), "NAAN")
            ELSE Raise(addressed(res), "ValueError")
    IN  IF block_data(block).err # "none"
        THEN Raise(FabInit(NAAN_defaults), block_data(block).err)
        ELSE build(NAAN_from_anvl_items(FabInit(NAAN_defaults), block_data(block).d))

(* __post_init__ sets what to naan "/" shoulder. *)
NAANShoulder_from_anvl_block(block) ==
    LET post_init(made) ==
            IF made.err # "none" THEN made
            ELSE [made EXCEPT !.rec.what = made.rec.naan \o "/" \o made.rec.shoulder]
        build(res) ==
            IF res.err # "none" THEN res
            ELSE IF "shoulder" \notin res.keys THEN Raise(res, "ValueError")
            ELSE post_init(construct(res, "NAANShoulder"))
    IN  IF block_data(block).err # "none"
        THEN Raise(FabInit(NAANShoulder_defaults), block_data(block).err)
        ELSE build(NAANShoulder_from_anvl_items(FabInit(NAANShoulder_defaults),
                                                block_data(block).d))

----------------------------------------------------------------------------
(* The ingestion loops of NaanRepository (lib_naan/naans.py).              *)

UNKNOWN_CONFIGS ==
    [what |-> "19156", url |-> "https://legacy-n2t.n2t.net/ark:/${content}"]

Ingest(err, repo, n) == [err |-> err, repo |-> repo, n |-> n]

(* The body of the loop for one block, where made is what from_anvl_block  *)
(* returned or raised: take the public view of the record when asked,      *)
(* upsert it and count it.  ValueError is caught and the block skipped;    *)
(* any other exception leaves the loop.  A key that holds a list cannot be *)
(* looked up in the index (TypeError).  The NAAN of UNKNOWN_CONFIGS takes  *)
(* its target from there.                                                  *)
ingest_block(st, made, cls, as_pub, t) ==
    LET counted(res) ==
            IF res.err = "ValueError" THEN Ingest("none", res.repo, st.n)
            ELSE IF res.err # "none" THEN Ingest(res.err, res.repo, st.n)
            ELSE Ingest("none", res.repo, st.n + 1)
        public(rec) == IF as_pub THEN as_public(rec) ELSE rec
        configured(naan) ==
            IF cls = "NAAN" /\ naan.what = UNKNOWN_CONFIGS.what
            THEN [naan EXCEPT !.target.url = UNKNOWN_CONFIGS.url]
            ELSE naan
    IN  IF made.err = "ValueError" THEN st
        ELSE IF made.err # "none" THEN Ingest(made.err, st.repo, st.n)
        ELSE IF ~made.hashable THEN Ingest("TypeError", st.repo, st.n)
        ELSE counted(upsert(st.repo, configured(public(made.rec)), t))

(* for block in parseBlocks(src): an exception parse() raises for a block  *)
(* is raised by the for statement, outside the try, and leaves the loop    *)
(* with the blocks before it upserted.                                     *)
RECURSIVE ingest_blocks(_, _, _, _, _)
ingest_blocks(st, blocks, cls, as_pub, t) ==
    IF blocks = <<>> \/ st.err # "none" THEN st
    ELSE IF Head(blocks).err # "none" THEN Ingest(Head(blocks).err, st.repo, st.n)
    ELSE ingest_blocks(ingest_block(st,
                                    IF cls = "NAAN"
                                    THEN NAAN_from_anvl_block(Head(blocks))
                                    ELSE NAANShoulder_from_anvl_block(Head(blocks)),
                                    cls, as_pub, t),
                       Tail(blocks), cls, as_pub, t)

load_naan_reg_priv(repo, naan_src, as_pub, t) ==
    ingest_blocks(Ingest("none", repo, 0), parseBlocks(naan_src),
                  "NAAN", as_pub, t)

load_shoulder_registry(repo, shoulder_src, as_pub, t) ==
    ingest_blocks(Ingest("none", repo, 0), parseBlocks(shoulder_src),
                  "NAANShoulder", as_pub, t)

(* The repository and the call after an ingestion call. *)
Ingested(op, src, pub, res) ==
    /\ records' = res.repo.records
    /\ index' = res.repo.index
    /\ metadata' = res.repo.metadata
    /\ last' = [Call(op, None, pub, NoRecord, res.err, NoRecord)
                   EXCEPT !.src = src, !.n = res.n]

LoadNaanRegPriv(src, pub) ==
    /\ last.op = "init"
    /\ Ingested("load_naan_reg_priv", src, pub, load_naan_reg_priv(repository, src, pub, now))
    /\ UNCHANGED <<now, disk, candidate_naans_file, allocated>>

LoadShoulderRegistry(src, pub) ==
    /\ last.op = "init"
    /\ Ingested("load_shoulder_registry", src, pub,
                load_shoulder_registry(repository, src, pub, now))
    /\ UNCHANGED <<now, disk, candidate_naans_file, allocated>>

(* SpecIngest: main_naans and shoulder_registry sources of up to MaxBlocks *)
(* blocks, loaded into a new repository.  The sample blocks:               *)
NaanBlocks ==
    <<
      (* a NAAN record for 12345 *)
      <<"n", "a", "a", ":", "\n", "w", "h", "o", ":", " ", "O", "r", "g",
        " ", "(", "=", ")", " ", "O", "R", "G", "\n", "w", "h", "a", "t",
        ":", " ", "1", "2", "3", "4", "5", "\n", "w", "h", "e", "n", ":",
        " ", "2", "0", "0", "1", ".", "0", "2", ".", "0", "3", "\n", "w",
        "h", "e", "r", "e", ":", " ", "h", "t", "t", "p", "s", ":", "/", "/",
        "e", "x", "a", "m", "p", "l", "e", ".", "o", "r", "g", "\n", "h",
        "o", "w", ":", " ", "N", "P", " ", "|", " ", "N", "R", " ", "|", " ",
        "2", "0", "0", "1", " ", "|", "\n">>,
      (* a NAAN record for 99999, with a comment line, a continuation *)
      (* line, a percent escape, a status code and a contact          *)
      <<"n", "a", "a", ":", "\n", "#", " ", "s", "e", "c", "o", "n", "d",
        "\n", "w", "h", "o", ":", " ", "L", "i", "b", "\n", " ", " ", "r",
        "a", "r", "y", "\n", "w", "h", "a", "t", ":", " ", "9", "9", "9",
        "9", "9", "\n", "w", "h", "e", "n", ":", " ", "2", "0", "0", "2",
        ".", "1", ".", "1", "\n", "w", "h", "e", "r", "e", ":", " ", "3",
        "0", "1", " ", "h", "t", "t", "p", ":", "/", "/", "n", "2", "t", ".",
        "n", "e", "t", "/", "x", "%", "3", "A", "y", "\n", "h", "o", "w",
        ":", " ", "N", "P", " ", "|", " ", "O", "R", " ", "|", " ", "2", "0",
        "0", "2", " ", "|", " ", "h", "t", "t", "p", ":", "/", "/", "p",
        "\n", "!", "c", "o", "n", "t", "a", "c", "t", ":", " ", "A", " ",
        "|", " ", "B", " ", "|", " ", "2", "0", "0", "2", " ", "|", " ", "a",
        "@", "b", "\n">>,
      (* another NAAN record for 12345 *)
      <<"n", "a", "a", ":", "\n", "w", "h", "o", ":", " ", "O", "r", "g",
        "2", "\n", "w", "h", "a", "t", ":", " ", "1", "2", "3", "4", "5",
        "\n", "w", "h", "e", "n", ":", " ", "2", "0", "0", "3", ".", "0",
        "4", ".", "0", "5", "\n", "w", "h", "e", "r", "e", ":", " ", "h",
        "t", "t", "p", ":", "/", "/", "b", ".", "o", "r", "g", "/", "$", "i",
        "d", "\n", "h", "o", "w", ":", " ", "F", "P", " ", "|", " ", "N",
        "R", " ", "|", " ", "2", "0", "0", "3", " ", "|", "\n">>,
      (* a line without a colon *)
      <<"n", "a", "a", ":", "\n", "w", "h", "o", " ", "O", "r", "g", "\n",
        "w", "h", "a", "t", ":", " ", "5", "5", "5", "5", "5", "\n">>,
      (* no what *)
      <<"n", "a", "a", ":", "\n", "w", "h", "o", ":", " ", "O", "r", "g",
        "\n">>,
      (* month 13 *)
      <<"n", "a", "a", ":", "\n", "w", "h", "o", ":", " ", "O", "r", "g",
        "\n", "w", "h", "a", "t", ":", " ", "5", "5", "5", "5", "5", "\n",
        "w", "h", "e", "n", ":", " ", "2", "0", "0", "1", ".", "1", "3", ".",
        "0", "3", "\n">>,
      (* no where *)
      <<"n", "a", "a", ":", "\n", "w", "h", "o", ":", " ", "O", "r", "g",
        "\n", "w", "h", "a", "t", ":", " ", "5", "5", "5", "5", "5", "\n",
        "w", "h", "e", "n", ":", " ", "2", "0", "0", "1", ".", "0", "2", ".",
        "0", "3", "\n", "h", "o", "w", ":", " ", "N", "P", " ", "|", " ",
        "N", "R", " ", "|", " ", "2", "0", "0", "1", " ", "|", "\n">> >>

ShoulderBlocks ==
    <<
      (* a shoulder record for 12345/foo *)
      <<"n", "a", "a", ":", "\n", "w", "h", "o", ":", " ", "O", "r", "g",
        "\n", "w", "h", "a", "t", ":", " ", "a", "r", "k", ":", "/", "1",
        "2", "3", "4", "5", "/", "f", "o", "o", "\n", "w", "h", "e", "n",
        ":", " ", "2", "0", "0", "1", ".", "0", "2", ".", "0", "3", "\n",
        "w", "h", "e", "r", "e", ":", " ", "h", "t", "t", "p", "s", ":", "/",
        "/", "e", "x", "a", "m", "p", "l", "e", ".", "o", "r", "g", "\n",
        "h", "o", "w", ":", " ", "N", "P", " ", "|", " ", "N", "R", " ", "|",
        " ", "2", "0", "0", "1", " ", "|", "\n">>,
      (* a shoulder of another scheme *)
      <<"n", "a", "a", ":", "\n", "w", "h", "o", ":", " ", "O", "r", "g",
        "\n", "w", "h", "a", "t", ":", " ", "d", "o", "i", ":", "1", "0",
        ".", "5", "/", "f", "o", "o", "\n", "w", "h", "e", "n", ":", " ",
        "2", "0", "0", "1", ".", "0", "2", ".", "0", "3", "\n">>,
      (* a percent sign that is no escape *)
      <<"n", "a", "a", ":", "\n", "w", "h", "o", ":", " ", "1", "0", "0",
        "%", "\n", "w", "h", "a", "t", ":", " ", "a", "r", "k", ":", "/",
        "1", "2", "3", "4", "5", "/", "b", "a", "r", "\n">> >>

MaxBlocks == 2

(* The text of the chosen blocks, an empty line after each. *)
RECURSIVE source(_, _)
source(blocks, choice) ==
    IF choice = <<>> THEN <<>>
    ELSE blocks[Head(choice)] \o <<"\n">> \o source(blocks, Tail(choice))

Sources(blocks) ==
    {source(blocks, choice) :
        choice \in UNION {[1..n -> 1..Len(blocks)] : n \in 1..MaxBlocks}}

NextIngest ==
    \/ \E src \in Sources(NaanBlocks), pub \in BOOLEAN : LoadNaanRegPriv(src, pub)
    \/ \E src \in Sources(ShoulderBlocks), pub \in BOOLEAN : LoadShoulderRegistry(src, pub)

SpecIngest == Init /\ [][NextIngest]_vars

(* SpecAnvl: the parser and split_who applied to bounded inputs.  A text   *)
(* is up to MaxLines of the sample lines, joined with a newline; a who     *)
(* string is up to MaxParts of the sample names, joined with " (=) ", or a *)
(* list of two of them.                                                    *)
AnvlLines ==
    <<
      (* an empty line *)
      <<>>,
      (* a line of spaces *)
      <<" ", " ">>,
      (* a comment *)
      <<"#", " ", "c">>,
      (* a label with a value *)
      <<"a", ":", " ", "1">>,
      (* a label with no value *)
      <<"a", ":">>,
      (* a second label *)
      <<"b", ":", " ", "2">>,
      (* a value of two parts *)
      <<"a", ":", " ", "3", " ", "|", " ", "4">>,
      (* a continuation line *)
      <<" ", "x", "%", "2", "1">>,
      (* a continuation line that decodes to spaces *)
      <<" ", "%", "2", "0">>,
      (* a continuation line with a percent sign that is no escape *)
      <<" ", "%", "4">>,
      (* a line with no colon *)
      <<"a">>,
      (* an empty label *)
      <<":", " ", "1">> >>

MaxLines == 3

Texts ==
    {str_join(<<"\n">>, [i \in 1..Len(choice) |-> AnvlLines[choice[i]]]) :
        choice \in UNION {[1..n -> 1..Len(AnvlLines)] : n \in 1..MaxLines}}

WhoNames ==
    <<
      (* one name *)
      <<"A">>,
      (* a name of two words *)
      <<"B", " ", "c">>,
      (* the separator without spaces *)
      <<"X", "(", "=", ")", "Y">> >>

MaxParts == 4

WhoStrings ==
    {str_join(<<" ", "(", "=", ")", " ">>, [i \in 1..Len(choice) |-> WhoNames[choice[i]]]) :
        choice \in UNION {[1..n -> 1..Len(WhoNames)] : n \in 1..MaxParts}}

WhoValues ==
    {Str(w) : w \in WhoStrings}
        \cup {List(<<Str(WhoNames[i]), Str(WhoNames[j])>>) :
                 i \in 1..Len(WhoNames), j \in 1..Len(WhoNames)}

(* The call of a function of anvl.py on src as the last call. *)
Applied(op, src, err, out) ==
    /\ last' = [Call(op, None, FALSE, NoRecord, err, out) EXCEPT !.src = src]
    /\ UNCHANGED <<records, index, metadata, now, disk, candidate_naans_file, allocated>>

(* AnvlParser().parse(txt) *)
Parse(txt) ==
    LET returned(block) == Applied("parse", txt, block.err, block)
    IN  returned(parse(re_split_lines(txt)))

(* list(AnvlParser().parseBlocks(txt)): the blocks the generator yields    *)
(* before the first call of parse() that raises, and that exception.       *)
ParseBlocks(txt) ==
    LET raises(blocks, i) == blocks[i].err # "none"
        yielded(blocks) ==
            IF \E i \in 1..Len(blocks) : raises(blocks, i)
            THEN LET i == CHOOSE i \in 1..Len(blocks) :
                              raises(blocks, i) /\ \A j \in 1..(i - 1) : ~raises(blocks, j)
                 IN  Applied("parseBlocks", txt, blocks[i].err, SubSeq(blocks, 1, i - 1))
            ELSE Applied("parseBlocks", txt, "none", blocks)
    IN  yielded(parseBlocks(txt))

(* split_who(who) *)
SplitWho(who) ==
    LET returned(res) == Applied("split_who", who, res.err, res)
    IN  returned(split_who(who))

(* The where strings urlstr2target is applied to: a status code or none,   *)
(* a scheme and host, a path and query, and a further part or none.        *)
WhereCodes ==
    <<
      (* no status code *)
      <<>>,
      (* a status code *)
      <<"3", "0", "3", " ">>,
      (* a first part that is no number *)
      <<"x", " ">> >>

WhereHosts ==
    <<
      (* a host *)
      <<"h", "t", "t", "p", ":", "/", "/", "w", "w", "w", ".", "w", "i",
        "p", "o", ".", "i", "n", "t">>,
      (* the legacy host, in capitals *)
      <<"h", "t", "t", "p", ":", "/", "/", "N", "2", "T", ".", "n", "e",
        "t">>,
      (* the legacy host *)
      <<"h", "t", "t", "p", "s", ":", "/", "/", "n", "2", "t", ".", "n",
        "e", "t">> >>

WherePaths ==
    <<
      (* no path *)
      <<>>,
      (* the root *)
      <<"/">>,
      (* a path *)
      <<"/", "a">>,
      (* a path that ends in ark: *)
      <<"/", "a", "r", "k", ":">>,
      (* a path that ends in ark:/ *)
      <<"/", "a", "r", "k", ":", "/">>,
      (* a path with a placeholder *)
      <<"/", "$", "i", "d">>,
      (* a query that ends in = *)
      <<"/", "x", "?", "i", "d", "=">>,
      (* a query *)
      <<"/", "x", "?", "i", "d", "=", "1">> >>

WhereTails ==
    <<
      (* nothing after the URL *)
      <<>>,
      (* a part after the URL *)
      <<" ", "y">> >>

WhereStrings ==
    {WhereCodes[c] \o WhereHosts[h] \o WherePaths[q] \o WhereTails[t] :
        c \in 1..Len(WhereCodes), h \in 1..Len(WhereHosts),
        q \in 1..Len(WherePaths), t \in 1..Len(WhereTails)}

(* The blocks from_anvl_block is applied to: the lines every record needs, *)
(* the what line of the class, and any of the lines with a ! label.        *)
BlockBase ==
    <<"n", "a", "a", ":", "\n", "w", "h", "o", ":", " ", "W", "\n", "w",
      "h", "e", "n", ":", " ", "2", "0", "2", "0", ".", "0", "1", ".", "0",
      "2", "\n", "w", "h", "e", "r", "e", ":", " ", "h", "t", "t", "p",
      ":", "/", "/", "e", ".", "o", "r", "g", "\n", "h", "o", "w", ":",
      " ", "N", "P", " ", "|", " ", "O", "R", " ", "|", " ", "2", "0", "2",
      "0", " ", "|", "\n">>

WhatLine(cls) ==
    IF cls = "NAAN"
    THEN <<"w", "h", "a", "t", ":", " ", "1", "2", "3", "4", "5", "\n">>
    ELSE <<"w", "h", "a", "t", ":", " ", "a", "r", "k", ":", "/", "1", "2", "3", "4", "5", "/", "f", "o", "o", "\n">>

BlockOptions ==
    <<
      (* a contact *)
      <<"!", "c", "o", "n", "t", "a", "c", "t", ":", " ", "N", " ", "|",
        " ", "U", " ", "|", " ", "T", " ", "|", " ", "e", "@", "x", "\n">>,
      (* an address *)
      <<"!", "a", "d", "d", "r", "e", "s", "s", ":", " ", "A", "d", "d",
        "r", "\n">>,
      (* a provider *)
      <<"!", "p", "r", "o", "v", "i", "d", "e", "r", ":", " ", "P", "\n">>,
      (* a note *)
      <<"!", "n", "o", "t", "e", ":", " ", "n", "\n">> >>

RECURSIVE BlockLines(_, _)
BlockLines(chosen, i) ==
    IF i > Len(BlockOptions) THEN <<>>
    ELSE (IF i \in chosen THEN BlockOptions[i] ELSE <<>>) \o BlockLines(chosen, i + 1)

BlockText(cls, chosen) == BlockBase \o WhatLine(cls) \o BlockLines(chosen, 1)

(* urlstr2target(ustr) *)
Urlstr2target(ustr) ==
    LET returned(res) == Applied("urlstr2target", ustr, res.err, res)
    IN  returned(urlstr2target(Str(ustr)))

(* cls.from_anvl_block(AnvlParser().parse(txt)) *)
FromAnvlBlock(cls, txt) ==
    LET returned(res) == Applied("from_anvl_block", txt, res.err, res.rec)
    IN  IF cls = "NAAN"
        THEN returned(NAAN_from_anvl_block(parse(re_split_lines(txt))))
        ELSE returned(NAANShoulder_from_anvl_block(parse(re_split_lines(txt))))

(* Each behaviour makes one call. *)
NextAnvl ==
    \/ last.op = "init" /\ \E txt \in Texts : Parse(txt)
    \/ last.op = "init" /\ \E txt \in Texts : ParseBlocks(txt)
    \/ last.op = "init" /\ \E who \in WhoValues : SplitWho(who)
    \/ last.op = "init" /\ \E ustr \in WhereStrings : Urlstr2target(ustr)
    \/ last.op = "init" /\ \E cls \in {"NAAN", "NAANShoulder"}, chosen \in SUBSET (1..Len(BlockOptions)) :
           FromAnvlBlock(cls, BlockText(cls, chosen))

SpecAnvl == Init /\ [][NextAnvl]_vars

----------------------------------------------------------------------------
(* CandidateNaans.  The candidate file is its text; allocated is the       *)
(* history of the values allocate_next_naan has returned.                  *)

MaxAllocations == 3

(* get_timestamp(): the time t in ISO form, a text without white space. *)
get_timestamp(t) == <<"T", HexDigits[(t % 10) + 1]>>

(* line_match.match(row): an optional # with the white space after it,    *)
(* five digits, and the rest of the row, tried at the start of row.  With  *)
(* a leading # the digits must follow it, without one they start the row.  *)
line_match(row) ==
    LET digits(s) == Len(s) >= 5 /\ \A i \in 1..5 : isdigit(s[i])
        found(comment, s) ==
            [matched |-> digits(s), comment |-> comment,
             naan |-> IF digits(s) THEN SubSeq(s, 1, 5) ELSE <<>>]
    IN  IF row # <<>> /\ Head(row) = "#"
        THEN found(TRUE, lstrip(Tail(row)))
        ELSE found(FALSE, row)

RESERVED == <<"9", "0", "9", "0", "9">>

RECURSIVE next_naan(_)
next_naan(rows) ==
    LET m == line_match(strip(Head(rows)))
    IN  IF rows = <<>> THEN None
        ELSE IF ~m.matched THEN next_naan(Tail(rows))
        ELSE IF m.naan = RESERVED THEN next_naan(Tail(rows))
        ELSE IF m.comment THEN next_naan(Tail(rows))
        ELSE text(m.naan)

(* inf.read() of a file opened in text mode: every line ending read as \n. *)
read_text(data) == str_join(<<"\n">>, re_split_lines(data))

get_next_naan(data) == next_naan(split(read_text(data), <<"\n">>))

(* The loop of allocate_next_naan over the rows left: what print() writes  *)
(* to the new file, and the value assigned.                                *)
RECURSIVE allocate_rows(_, _, _, _)
allocate_rows(rows, assigned, message, t) ==
    LET m == line_match(strip(Head(rows)))
        print(line, a) ==
            LET rest == allocate_rows(Tail(rows), a, message, t)
            IN  [assigned |-> rest.assigned, data |-> line \o <<"\n">> \o rest.data]
    IN  IF rows = <<>> THEN [assigned |-> assigned, data |-> <<>>]
        ELSE IF assigned # None THEN print(Head(rows), assigned)
        ELSE IF ~m.matched THEN print(Head(rows), assigned)
        ELSE IF m.naan = RESERVED THEN print(Head(rows), assigned)
        ELSE IF m.comment THEN print(Head(rows), assigned)
        ELSE print(<<"#", " ">> \o m.naan \o <<" ">> \o get_timestamp(t)
                      \o <<" ">> \o message,
                   text(m.naan))

(* The new file takes the place of the candidate file. *)
allocate_next_naan(data, message, t) ==
    allocate_rows(split(read_text(data), <<"\n">>), None, message, t)

(* Candidate files, each of distinct candidates. *)
CandidateFiles ==
    {
      (* two candidates after a heading and the reserved 90909 *)
      <<"#", " ", "c", "a", "n", "d", "i", "d", "a", "t", "e", "s", "\n",
        "9", "0", "9", "0", "9", "\n", "1", "1", "1", "1", "1", "\n", "2",
        "2", "2", "2", "2", "\n">>,
      (* no newline after the last row *)
      <<"1", "1", "1", "1", "1", "\n", "2", "2", "2", "2", "2">>,
      (* an allocated row, an indented candidate *)
      <<" ", "#", " ", "1", "1", "1", "1", "1", " ", "T", "0", " ", "O",
        "r", "g", "\n", " ", "2", "2", "2", "2", "2", " ", "\n", "3", "3",
        "3", "3", "3", "\n">>,
      (* no candidate left *)
      <<"#", " ", "1", "1", "1", "1", "1", " ", "T", "0", " ", "O", "r",
        "g", "\n">>
    }

(* Messages given to allocate_next_naan. *)
Messages ==
    {
      (* a name *)
      <<"O", "r", "g">>,
      (* a number *)
      <<"2", "2", "2", "2", "2">>,
      (* two lines *)
      <<"O", "r", "g", "\n", "1", "1", "1", "1", "1">>,
      (* two lines, the second a later candidate *)
      <<"L", "i", "b", "\n", "2", "2", "2", "2", "2">>
    }

InitCandidates ==
    /\ records = <<>>
    /\ index = _update_index(<<>>)
    /\ metadata = [version |-> "1.0", updated |-> NoStamp]
    /\ now = Precision
    /\ disk = NoFile
    /\ last = Call("init", None, FALSE, NoRecord, "none", NoRecord)
    /\ candidate_naans_file \in CandidateFiles
    /\ allocated = <<>>

GetNextNaan ==
    /\ last' = Call("get_next_naan", None, FALSE, NoRecord, "none",
                    [naan |-> get_next_naan(candidate_naans_file)])
    /\ UNCHANGED <<records, index, metadata, now, disk, candidate_naans_file, allocated>>

AllocateNextNaan(message) ==
    LET returned(res) ==
            /\ candidate_naans_file' = res.data
            /\ allocated' = Append(allocated, res.assigned)
            /\ last' = [Call("allocate_next_naan", None, FALSE, NoRecord, "none",
                             [naan |-> res.assigned]) EXCEPT !.src = message]
    IN  /\ Len(allocated) < MaxAllocations
        /\ returned(allocate_next_naan(candidate_naans_file, message, now))
        /\ UNCHANGED <<records, index, metadata, now, disk>>

NextCandidates ==
    \/ GetNextNaan
    \/ \E message \in Messages : AllocateNextNaan(message)

SpecCandidates == InitCandidates /\ [][NextCandidates]_vars

----------------------------------------------------------------------------
(* ezid_overrides.  existing is the dict of naan_records.json, identifier   *)
(* to record; a record is a dict whose absent keys are NA and whose        *)
(* target url is a text.                                                   *)

MaxEntries == 2

EZID_TARGET ==
    <<"h", "t", "t", "p", "s", ":", "/", "/", "e", "z", "i", "d", ".", "c", "d", "l", "i", "b", ".", "o", "r", "g", "/", "$", "a", "r", "k", "p", "i", "d">>

ezid_exceptions == {"87602", "21549"}

(* existing[key] = record *)
setrecord(existing, key, record) ==
    [k \in DOMAIN existing \cup {key} |-> IF k = key THEN record ELSE existing[k]]

(* One pass of the loop over ezid_shoulder_list. *)
ezid_entry(existing, entry) ==
    LET naan_key == entry.prefix
        shoulder_key == entry.prefix \o "/" \o entry.value
        has_shoulder == entry.value # "" /\ shoulder_key \in DOMAIN existing
        netloc(record) == urlsplit(record.target.url, <<"h", "t", "t", "p", "s">>).netloc
        retarget(record) == [record EXCEPT !.target.url = EZID_TARGET]
        shoulder_record(naan_record) ==
            [retarget(naan_record) EXCEPT !.rtype = "shoulder",
                                          !.naan = naan_key,
                                          !.shoulder = naan_record.what,
                                          !.what = NA,
                                          !.who.name = entry.name,
                                          !.who.acronym = None]
    IN  IF naan_key \in ezid_exceptions THEN existing
        ELSE IF has_shoulder
        THEN IF netloc(existing[shoulder_key]) = TARGET_OVERRIDES[1][2]
             THEN setrecord(existing, shoulder_key, retarget(existing[shoulder_key]))
             ELSE existing
        ELSE IF naan_key \notin DOMAIN existing THEN existing
        ELSE IF entry.value # ""
        THEN setrecord(existing, shoulder_key, shoulder_record(existing[naan_key]))
        ELSE setrecord(existing, naan_key, retarget(existing[naan_key]))

RECURSIVE ezid_entries(_, _)
ezid_entries(existing, ezid_shoulder_list) ==
    IF ezid_shoulder_list = <<>> THEN existing
    ELSE ezid_entries(ezid_entry(existing, Head(ezid_shoulder_list)),
                      Tail(ezid_shoulder_list))

ezid_overrides(existing, ezid_shoulder_list) ==
    IF DOMAIN existing = {} THEN [err |-> "ValueError", existing |-> existing]
    ELSE IF ezid_shoulder_list = <<>> THEN [err |-> "ValueError", existing |-> existing]
    ELSE [err |-> "none", existing |-> ezid_entries(existing, ezid_shoulder_list)]

(* Records of naan_records.json: a NAAN and a shoulder, each with a target *)
(* at arks.org or elsewhere.                                               *)
EzidUrls ==
    << <<"h", "t", "t", "p", "s", ":", "/", "/", "a", "r", "k", "s", ".", "o", "r", "g", "/", "a">>,
       <<"h", "t", "t", "p", ":", "/", "/", "e", ".", "o", "r", "g", "/">> >>

NaanDict(what, url) ==
    [rtype |-> "naan", what |-> what, naan |-> NA, shoulder |-> NA,
     who |-> [name |-> "Org", acronym |-> "O"],
     target |-> [url |-> url, http_code |-> DefaultCode]]

ShoulderDict(naan, shoulder, url) ==
    [rtype |-> "shoulder", what |-> NA, naan |-> naan, shoulder |-> shoulder,
     who |-> [name |-> "Lab", acronym |-> None],
     target |-> [url |-> url, http_code |-> DefaultCode]]

EzidKeys == {"12345", "12345/foo", "87602"}

(* choice[k] is 0 when existing has no record k, else its url in EzidUrls. *)
ExistingOf(choice) ==
    [k \in {h \in EzidKeys : choice[h] > 0} |->
        IF k = "12345/foo"
        THEN ShoulderDict("12345", "foo", EzidUrls[choice[k]])
        ELSE NaanDict(k, EzidUrls[choice[k]])]

ExistingDicts == {ExistingOf(choice) : choice \in [EzidKeys -> 0..Len(EzidUrls)]}

EzidEntries ==
    [prefix : {"12345", "87602", "99999"}, value : {"", "foo", "bar"}, name : {"Foo"}]

EzidLists == UNION {[1..n -> EzidEntries] : n \in 0..MaxEntries}

EzidOverrides(existing, ezid_shoulder_list) ==
    LET returned(res) ==
            last' = Call("ezid_overrides", None, FALSE,
                         [existing |-> existing, entries |-> ezid_shoulder_list],
                         res.err, [existing |-> res.existing])
    IN  /\ returned(ezid_overrides(existing, ezid_shoulder_list))
        /\ UNCHANGED <<records, index, metadata, now, disk, candidate_naans_file, allocated>>

(* Each behaviour makes one call. *)
NextEzid ==
    last.op = "init" /\ \E existing \in ExistingDicts, entries \in EzidLists :
        EzidOverrides(existing, entries)

SpecEzid == Init /\ [][NextEzid]_vars

----------------------------------------------------------------------------
(* Properties.  A step is identified by the call it leaves in last.        *)

Stored(key) == records[index[key] + 1]

Identifiers(recs) == [i \in 1..Len(recs) |-> identifier(recs[i])]

Holders(recs, key) == {i \in 1..Len(recs) : identifier(recs[i]) = key}

(* C1: insert(record) fails with a duplicate-key error and changes neither *)
(* records nor index when record.identifier is indexed; otherwise the      *)
(* record is appended last, the length grows by one and the index maps its *)
(* identifier to the last position.                                        *)
C1_Insert ==
    [][last'.op = "insert" =>
        IF last'.key \in DOMAIN index
        THEN /\ last'.err = "ValueError"
             /\ records' = records
             /\ index' = index
        ELSE /\ last'.err = "none"
             /\ Len(records') = Len(records) + 1
             /\ records' = Append(records, last'.entry)
             /\ last'.key \in DOMAIN index'
             /\ index'[last'.key] = Len(records') - 1]_vars

C1_Witness ==
    /\ last.op = "insert"
    /\ last.err = "ValueError"
    /\ Len(records) = 2
    /\ index[last.key] = 0

(* The key-forming fields of the incoming record differ from the stored    *)
(* record's: what for a NAAN, naan or shoulder for a shoulder.             *)
KeyDiffers(stored, incoming) ==
    IF stored.cls \in NaanClasses
    THEN incoming.what # stored.what
    ELSE incoming.naan # stored.naan \/ incoming.shoulder # stored.shoulder

(* C2: update of a stored record with an incoming record whose key-forming *)
(* field differs fails, and leaves every field of the stored record as it  *)
(* was.                                                                    *)
C2_KeyImmutable ==
    [][(/\ last'.op \in {"update", "record_update"}
        /\ last'.key \in DOMAIN index
        /\ KeyDiffers(Stored(last'.key), last'.entry))
       => (last'.err # "none" /\ records' = records)]_vars

C2_Witness ==
    /\ last.op = "record_update"
    /\ last.err = "ValueError"
    /\ Stored(last.key).cls = "NAAN"
    /\ last.entry.cls = "NAAN"
    /\ last.entry.what # Stored(last.key).what
    /\ last.entry.where # Stored(last.key).where

(* C3: read, update and delete of an identifier no stored record has fail, *)
(* and leave records and index (so the length) as they were.               *)
C3_Missing ==
    [][(/\ last'.op \in {"read", "update", "delete"}
        /\ Holders(records, last'.key) = {})
       => (/\ last'.err = "KeyError"
           /\ records' = records
           /\ index' = index)]_vars

C3_Witness ==
    /\ last.op = "delete"
    /\ last.err = "KeyError"
    /\ Len(records) = 2

(* The stored record has the value of the incoming record in every         *)
(* attribute the incoming record has.                                      *)
ReadsAs(stored, incoming) ==
    /\ \A f \in {"what", "naan", "shoulder", "where", "test_identifier",
                 "service_provider", "purpose", "why", "contact",
                 "alternate_contact", "comments", "provider"} :
          incoming[f] # NA => stored[f] = incoming[f]
    /\ stored.when = incoming.when
    /\ stored.target = incoming.target
    /\ stored.na_policy = incoming.na_policy
    /\ stored.who.name = incoming.who.name
    /\ stored.who.name_native = incoming.who.name_native
    /\ stored.who.acronym = incoming.who.acronym
    /\ incoming.who.address # NA => stored.who.address = incoming.who.address

SameContent(loaded, original) ==
    /\ \A f \in {"rtype", "what", "naan", "shoulder", "where", "test_identifier",
                 "service_provider", "purpose", "why", "contact",
                 "alternate_contact", "comments", "provider"} :
          original[f] # NA => loaded[f] = original[f]
    /\ isoformat(loaded.when) = isoformat(original.when)
    /\ loaded.target = original.target
    /\ loaded.na_policy = original.na_policy
    /\ loaded.who.name = original.who.name
    /\ loaded.who.name_native = original.who.name_native
    /\ loaded.who.acronym = original.who.acronym
    /\ original.who.address # NA => loaded.who.address = original.who.address

(* C5: store() followed by load() yields the same number of records, the   *)
(* same identifiers in the same order and the same field values.           *)
C5_RoundTrip ==
    [][(last.op = "store" /\ ~last.pub /\ last'.op = "load") =>
        /\ last'.err = "none"
        /\ Len(records') = Len(records)
        /\ Identifiers(records') = Identifiers(records)
        /\ \A i \in 1..Len(records) : SameContent(records'[i], records[i])]_vars

(* C6: after store() or store(as_public=True) and load(), every record has *)
(* the concrete type its rtype discriminator names.                        *)
C6_TypeRoundTrip ==
    (last.op = "load" /\ last.err = "none") =>
        \A i \in 1..Len(records) : records[i].cls = records[i].rtype

(* C8: a repository update of a NAAN record, private or public, sets the   *)
(* stored when to the time of the update.                                  *)
C8_WhenReset ==
    (/\ last.op = "update"
     /\ last.err = "none"
     /\ Stored(last.key).cls \in NaanClasses)
    => Stored(last.key).when = now

(* C9: update of a stored private NAAN with an incoming private NAAN of    *)
(* the same what overwrites every mutable field, absent values included.   *)
C9_NaanOverwrite ==
    (/\ last.op \in {"update", "record_update"}
     /\ last.err = "none"
     /\ Stored(last.key).cls = "NAAN"
     /\ last.entry.cls = "NAAN")
    => LET stored == Stored(last.key)
           incoming == last.entry
       IN  /\ stored.where = incoming.where
           /\ stored.target = incoming.target
           /\ stored.who.name = incoming.who.name
           /\ stored.who.name_native = incoming.who.name_native
           /\ stored.who.acronym = incoming.who.acronym
           /\ stored.who.address = incoming.who.address
           /\ stored.na_policy = incoming.na_policy
           /\ stored.test_identifier = incoming.test_identifier
           /\ stored.service_provider = incoming.service_provider
           /\ stored.purpose = incoming.purpose
           /\ stored.why = incoming.why
           /\ stored.contact = incoming.contact
           /\ stored.alternate_contact = incoming.alternate_contact
           /\ stored.comments = incoming.comments
           /\ stored.provider = incoming.provider

C9_Witness ==
    /\ last.op = "update"
    /\ last.err = "none"
    /\ Stored(last.key).cls = "NAAN"
    /\ last.entry.cls = "NAAN"
    /\ last.entry.contact = None
    /\ Stored(last.key).contact = None
    /\ Stored(last.key).when # last.entry.when

(* C10: update of a stored shoulder with an incoming shoulder of the same  *)
(* naan and shoulder overwrites who, where, target, na_policy,             *)
(* test_identifier and when.                                               *)
C10_ShoulderOverwrite ==
    (/\ last.op \in {"update", "record_update"}
     /\ last.err = "none"
     /\ Stored(last.key).cls = "NAANShoulder"
     /\ last.entry.cls = "NAANShoulder")
    => LET stored == Stored(last.key)
           incoming == last.entry
       IN  /\ stored.who = incoming.who
           /\ stored.where = incoming.where
           /\ stored.target = incoming.target
           /\ stored.na_policy = incoming.na_policy
           /\ stored.test_identifier = incoming.test_identifier
           /\ stored.when = incoming.when

(* The blocks of a source an ingestion call can build a record from: those *)
(* parse() returns a dict for and from_anvl_block returns a record for.    *)
(* The value is the set of their records and their number.                 *)
WellFormed(op, src) ==
    LET kept(made, ok) == [records |-> {made[i].rec : i \in ok}, n |-> Cardinality(ok)]
        good(blocks, made) ==
            kept(made, {i \in 1..Len(made) :
                           blocks[i].err = "none" /\ made[i].err = "none"})
    IN  good(parseBlocks(src),
             [i \in 1..Len(parseBlocks(src)) |->
                 IF op = "load_naan_reg_priv"
                 THEN NAAN_from_anvl_block(parseBlocks(src)[i])
                 ELSE NAANShoulder_from_anvl_block(parseBlocks(src)[i])])

(* C7: load_naan_reg_priv and load_shoulder_registry skip a block that is  *)
(* malformed ANVL or cannot be built into a record: the call returns, the  *)
(* record of every well-formed block of the source is stored, and the      *)
(* count returned is the number of blocks upserted.                        *)
C7_SkipPerBlock ==
    LET all_upserted(wf) ==
            /\ last.err = "none"
            /\ \A r \in wf.records : identifier(r) \in DOMAIN index
            /\ last.n = wf.n
    IN  last.op \in {"load_naan_reg_priv", "load_shoulder_registry"} =>
            all_upserted(WellFormed(last.op, last.src))

(* Two records agree in every field but when. *)
SameButWhen(a, b) == [a EXCEPT !.when = 0] = [b EXCEPT !.when = 0]

(* C11: upsert(x) called a second time with the same x raises nothing and  *)
(* leaves the length, the order and every field of every stored record as  *)
(* they were, except the when of the stored NAAN that has x's identifier.  *)
C11_UpsertIdempotent ==
    [][last'.op = "upsert again" =>
        /\ last'.err = "none"
        /\ Len(records') = Len(records)
        /\ Identifiers(records') = Identifiers(records)
        /\ index' = index
        /\ \A i \in 1..Len(records) :
              /\ SameButWhen(records'[i], records[i])
              /\ records'[i].when # records[i].when =>
                    /\ records[i].cls = "NAAN"
                    /\ identifier(records[i]) = last'.key]_vars

C11_Witness ==
    /\ last.op = "upsert again"
    /\ last.err = "none"
    /\ Len(records) = 2
    /\ Stored(last.key).cls = "NAAN"
    /\ last.entry.cls = "PublicNAAN"
    /\ Stored(last.key).when = now
    /\ now > Precision

(* C12: delete of a stored identifier returns, the length is one less, the *)
(* identifier can no longer be read, every other identifier reads as the   *)
(* record it read as before, the remaining records keep their relative     *)
(* order, and the index gives each its position in records.                *)
C12_Delete ==
    [][(last'.op = "delete" /\ last'.key \in DOMAIN index) =>
        /\ last'.err = "none"
        /\ Len(records') = Len(records) - 1
        /\ read(Repo(records', index', metadata'), last'.key, FALSE).err = "KeyError"
        /\ DOMAIN index' = DOMAIN index \ {last'.key}
        /\ \A k \in DOMAIN index' : index'[k] \in 0..(Len(records') - 1)
        /\ \A k \in DOMAIN index' :
              /\ read(Repo(records', index', metadata'), k, FALSE).out
                    = read(repository, k, FALSE).out
              /\ identifier(records'[index'[k] + 1]) = k
        /\ \A k1, k2 \in DOMAIN index' :
              index[k1] < index[k2] <=> index'[k1] < index'[k2]]_vars

C12_Witness ==
    /\ last.op = "delete"
    /\ last.err = "none"
    /\ Len(records) = 2
    /\ last.key = "12345/foo"
    /\ identifier(records[1]) = "99999"
    /\ index["12345"] = 1

(* A record, or the JSON object written for it, has no address in its who  *)
(* and no contact, alternate_contact, comments or provider.                *)
NoPrivateData(r) ==
    /\ r.who.address = NA
    /\ r.contact = NA
    /\ r.alternate_contact = NA
    /\ r.comments = NA
    /\ r.provider = NA

(* C13: a record read with as_public=True, and every record that           *)
(* store(as_public=True) writes, has a who without address and has no      *)
(* contact, alternate_contact, comments or provider.                       *)
C13_NoPrivateData ==
    /\ (last.op = "read" /\ last.pub /\ last.err = "none") => NoPrivateData(last.out)
    /\ (last.op = "store" /\ last.pub) =>
          \A i \in 1..Len(disk.data) : NoPrivateData(disk.data[i])

C13_Witness ==
    /\ last.op = "read"
    /\ last.pub
    /\ last.err = "none"
    /\ Stored(last.key).cls = "NAAN"
    /\ Stored(last.key).contact \notin {NA, None}
    /\ Stored(last.key).who.address \notin {NA, None}
    /\ disk.state = "ok"
    /\ Len(disk.data) = 2
    /\ disk.data[1].contact = NA
    /\ records[1].cls = "NAANShoulder"
    /\ records[1].provider \notin {NA, None}

(* C14: the public view of a record has the same identifier, where,        *)
(* target, when, na_policy and test_identifier as the record (and the same *)
(* service_provider and purpose for a NAAN), and its who has the same      *)
(* name, name_native and acronym.                                          *)
C14_PublicKeepsCore ==
    (last.op = "read" /\ last.pub /\ last.err = "none") =>
        /\ identifier(last.out) = identifier(Stored(last.key))
        /\ last.out.where = Stored(last.key).where
        /\ last.out.target = Stored(last.key).target
        /\ last.out.when = Stored(last.key).when
        /\ last.out.na_policy = Stored(last.key).na_policy
        /\ last.out.test_identifier = Stored(last.key).test_identifier
        /\ last.out.who.name = Stored(last.key).who.name
        /\ last.out.who.name_native = Stored(last.key).who.name_native
        /\ last.out.who.acronym = Stored(last.key).who.acronym
        /\ Stored(last.key).cls \in {"NAAN", "PublicNAAN"} =>
              /\ last.out.service_provider = Stored(last.key).service_provider
              /\ last.out.purpose = Stored(last.key).purpose

(* The lines of a text that do not begin with "#", in order. *)
NoComment(line) == ~(Len(line) > 0 /\ line[1] = "#")
Kept(txt) == SelectSeq(re_split_lines(txt), NoComment)

(* Where the maximal runs of non-empty lines begin, and where the run that *)
(* begins at line i ends.                                                  *)
RunStarts(kept) ==
    {i \in 1..Len(kept) : kept[i] # <<>> /\ (i = 1 \/ kept[i - 1] = <<>>)}
RunEnd(kept, i) ==
    CHOOSE j \in i..Len(kept) :
        /\ \A h \in i..j : kept[h] # <<>>
        /\ j = Len(kept) \/ kept[j + 1] = <<>>

(* The lines of run number n. *)
Run(kept, n) ==
    LET lines(i) == SubSeq(kept, i, RunEnd(kept, i))
    IN  lines(CHOOSE i \in RunStarts(kept) :
                  Cardinality({h \in RunStarts(kept) : h <= i}) = n)

(* C15: parseBlocks yields, in input order, one block per maximal run of   *)
(* non-empty lines of the text without its lines that begin with "#": the  *)
(* n-th block yielded is parse() of the n-th run, the last run included    *)
(* when no empty line follows it; the blocks stop only at a run whose      *)
(* parse() raises.                                                         *)
C15_Blocks ==
    last.op = "parseBlocks" =>
        /\ Len(last.out) <= Cardinality(RunStarts(Kept(last.src)))
        /\ \A n \in 1..Len(last.out) : last.out[n] = parse(Run(Kept(last.src), n))
        /\ last.err = "none" => Len(last.out) = Cardinality(RunStarts(Kept(last.src)))
        /\ last.err # "none" =>
              /\ Len(last.out) < Cardinality(RunStarts(Kept(last.src)))
              /\ parse(Run(Kept(last.src), Len(last.out) + 1)).err = last.err

C15_Witness ==
    /\ last.op = "parseBlocks"
    /\ last.err = "none"
    /\ last.src = <<"a", ":", " ", "1", "\n", "\n", "b", ":", " ", "2">>
    /\ Len(last.out) = 2
    /\ last.out[1].k0 = <<"a">>
    /\ last.out[2].k0 = <<"b">>

(* C16: whatever the text, parse and parseBlocks return or raise           *)
(* AnvlParseException: no other exception leaves them.                     *)
C16_OnlyParseError ==
    last.op \in {"parse", "parseBlocks"} => last.err \in {"none", "AnvlParseException"}

(* The locals of parse() after the given lines. *)
Locals(lines) == parse_lines(ParseState("none", <<>>, FALSE, <<>>, FALSE, <<>>), lines)

(* All but the last line of a text, and its last line without trailing     *)
(* whitespace.                                                              *)
Before(txt) == SubSeq(re_split_lines(txt), 1, Len(re_split_lines(txt)) - 1)
LastLine(txt) == rstrip(re_split_lines(txt)[Len(re_split_lines(txt))])

(* The text ends with a continuation line that decodes, after lines that   *)
(* parse and leave a label to continue.                                    *)
Continues(txt) ==
    /\ Len(LastLine(txt)) > 0
    /\ isspace(LastLine(txt)[1])
    /\ Locals(Before(txt)).err = "none"
    /\ Locals(Before(txt)).has_k
    /\ _decode(LastLine(txt)).err = "none"

(* The value of label k in the mapping parse() returned: the value popped  *)
(* from a nested block was the empty string.                               *)
ValueOf(block, k) ==
    IF has(block.d, k) THEN block.d[pos(block.d, k)].v ELSE Str(<<>>)

(* ll appended with a single space: to nothing, to a string, or to the     *)
(* last string of a list.                                                  *)
Continued(v, ll) ==
    IF v = Str(<<>>) THEN Str(ll)
    ELSE IF v.t = "str" THEN Str(v.s \o <<" ">> \o ll)
    ELSE List([v.items EXCEPT ![Len(v.items)] = Str(v.items[Len(v.items)].s \o <<" ">> \o ll)])

(* C17: when the last line of a text is a continuation line, parse()       *)
(* returns what it returns for the lines before it if the line decodes to  *)
(* nothing but whitespace, and otherwise the same labels with the decoded, *)
(* trimmed line appended with a single space to the value of the label     *)
(* before it, whether that value was empty, a string or a list.            *)
C17_Continuation ==
    (last.op = "parse" /\ Continues(last.src)) =>
        /\ last.err = "none"
        /\ strip(_decode(LastLine(last.src)).s) = <<>> => last.out = parse(Before(last.src))
        /\ strip(_decode(LastLine(last.src)).s) # <<>> =>
              /\ ValueOf(last.out, Locals(Before(last.src)).k)
                    = Continued(ValueOf(parse(Before(last.src)), Locals(Before(last.src)).k),
                                strip(_decode(LastLine(last.src)).s))
              /\ \A i \in 1..Len(Locals(Before(last.src)).d) :
                    Locals(Before(last.src)).d[i].k # Locals(Before(last.src)).k =>
                        ValueOf(last.out, Locals(Before(last.src)).d[i].k)
                            = ValueOf(parse(Before(last.src)), Locals(Before(last.src)).d[i].k)

(* A string, or a list of strings. *)
FlatValue(v) == v.t = "str" \/ \A j \in 1..Len(v.items) : v.items[j].t = "str"

(* C18: every value of a mapping parse() returns is a string or a list of  *)
(* strings, never a list that holds a list; the blocks parseBlocks yields  *)
(* likewise.                                                               *)
C18_FlatValues ==
    /\ (last.op = "parse" /\ last.err = "none") =>
          \A i \in 1..Len(last.out.d) : FlatValue(last.out.d[i].v)
    /\ last.op = "parseBlocks" =>
          \A n \in 1..Len(last.out) :
              \A i \in 1..Len(last.out[n].d) : FlatValue(last.out[n].d[i].v)

(* The label of the first label line of a text that parses. *)
IsLabelLine(line) ==
    /\ Len(rstrip(line)) > 0
    /\ line[1] # "#"
    /\ ~isspace(line[1])
FirstLabel(lines) ==
    LET label(line) == strip(_decode(split1(line, <<":">>)[1]).s)
    IN  label(lines[CHOOSE i \in 1..Len(lines) :
                        IsLabelLine(lines[i]) /\ \A h \in 1..(i - 1) : ~IsLabelLine(lines[h])])

NotFirst(item) == item.k # last.out.k0

(* C19: when the value of the first label of a block is not the empty      *)
(* string, parse() returns the mapping of all the labels of the block, in  *)
(* order; when it is, parse() returns a mapping of one key, the first      *)
(* label, whose value is the mapping of all the other labels.              *)
C19_Shape ==
    (last.op = "parse" /\ last.err = "none") =>
        /\ last.out.k0 = FirstLabel(re_split_lines(last.src))
        /\ ValueOf(Block("none", TRUE, <<>>, Locals(re_split_lines(last.src)).d), last.out.k0)
              # Str(<<>>) =>
              /\ last.out.flat
              /\ last.out.d = Locals(re_split_lines(last.src)).d
        /\ ValueOf(Block("none", TRUE, <<>>, Locals(re_split_lines(last.src)).d), last.out.k0)
              = Str(<<>>) =>
              /\ ~last.out.flat
              /\ ~has(last.out.d, last.out.k0)
              /\ last.out.d = SelectSeq(Locals(re_split_lines(last.src)).d, NotFirst)

C19_Witness ==
    /\ last.op = "parse"
    /\ last.err = "none"
    /\ last.src = <<"a", ":", "\n", "b", ":", " ", "2", "\n", " ", "x", "%", "2", "1">>
    /\ ~last.out.flat
    /\ last.out.k0 = <<"a">>
    /\ Len(last.out.d) = 1

(* C20: split_who of a string gives a name for any number of parts: the    *)
(* string itself for one part, parts one and two as name and acronym for   *)
(* two, parts one, two and three as name_native, name and acronym for      *)
(* three, and the original string as the name, with nothing else, for any  *)
(* other number of parts.                                                  *)
C20_SplitWho ==
    (last.op = "split_who" /\ last.src.t = "str") =>
        /\ last.err = "none"
        /\ last.out.name # None
        /\ Len(who_split(last.src.s)) = 1 =>
              /\ last.out.name = text(last.src.s)
              /\ last.out.acronym = None
              /\ last.out.name_native = None
        /\ Len(who_split(last.src.s)) = 2 =>
              /\ last.out.name = text(who_split(last.src.s)[1])
              /\ last.out.acronym = text(who_split(last.src.s)[2])
              /\ last.out.name_native = None
        /\ Len(who_split(last.src.s)) = 3 =>
              /\ last.out.name_native = text(who_split(last.src.s)[1])
              /\ last.out.name = text(who_split(last.src.s)[2])
              /\ last.out.acronym = text(who_split(last.src.s)[3])
        /\ Len(who_split(last.src.s)) > 3 =>
              /\ last.out.name = text(last.src.s)
              /\ last.out.acronym = None
              /\ last.out.name_native = None

(* The placeholder of the full identifier, and the default scheme. *)
Pid == <<"$", "{", "p", "i", "d", "}">>
Https == <<"h", "t", "t", "p", "s">>

(* ustr takes the branch of the query-based resolvers. *)
QueryResolver(ustr) == find(ustr, <<"?">>) > 0 /\ ustr[Len(ustr)] \in {"=", "?"}

(* The path holds one of the placeholders adjust_path replaces. *)
HasPlaceholder(path) == \E i \in 1..Len(Replacements) : find(path, Replacements[i][1]) > 0

(* The path, made to end with a slash. *)
Slashed(path) == IF endswith(path, <<"/">>) THEN path ELSE path \o <<"/">>

(* The url with another path, its host lower-cased and rewritten. *)
WithPath(url, path) ==
    text(urlunsplit(url.scheme, adjust_netloc(url.netloc), path, url.query, url.fragment))

(* C21: for a where string of one part that is no query-based resolver and *)
(* whose path holds no placeholder and does not end in ark: or ark:/,      *)
(* urlstr2target gives http_code 302 and the URL with its path made to end *)
(* in "/" followed by the placeholder of the full identifier.              *)
C21_DefaultTarget ==
    (/\ last.op = "urlstr2target"
     /\ Len(split_ws(last.src)) = 1
     /\ ~QueryResolver(last.src)
     /\ ~HasPlaceholder(urlsplit(last.src, Https).path)
     /\ ~endswith(urlsplit(last.src, Https).path, <<"a", "r", "k", ":">>)
     /\ ~endswith(urlsplit(last.src, Https).path, <<"a", "r", "k", ":", "/">>)) =>
        /\ last.err = "none"
        /\ last.out.http_code = DefaultCode
        /\ last.out.url = WithPath(urlsplit(last.src, Https),
                                   Slashed(urlsplit(last.src, Https).path) \o Pid)

(* The where string with another host. *)
WithHost(ustr, host) ==
    LET put(url) == urlunsplit(url.scheme, host, url.path, url.query, url.fragment)
    IN  put(urlsplit(ustr, Https))

(* C22: for a where string of one part whose host is n2t.net in any case,  *)
(* urlstr2target gives the URL it gives for the same string with arks.org  *)
(* as its host, on the branch of the query-based resolvers as on the       *)
(* branch that rewrites the path.                                          *)
C22_LegacyHost ==
    (/\ last.op = "urlstr2target"
     /\ Len(split_ws(last.src)) = 1
     /\ lower(urlsplit(last.src, Https).netloc) = TARGET_OVERRIDES[1][1]) =>
        /\ last.err = "none"
        /\ last.out.url
              = urlstr2target(Str(WithHost(last.src, TARGET_OVERRIDES[1][2]))).url

(* What urlstr2target makes of a string once the status code is settled. *)
UrlOf(ustr) ==
    IF QueryResolver(ustr) THEN text(ustr \o Pid)
    ELSE WithPath(urlsplit(ustr, Https), adjust_path(urlsplit(ustr, Https).path, TRUE))

(* The trimmed string begins with a number that whitespace follows; the    *)
(* string after that number.                                               *)
HasCode(ustr) == Len(split_ws(strip(ustr))) > 1 /\ int(Head(split_ws(strip(ustr)))).ok
AfterCode(ustr) == lstrip(From(strip(ustr), Len(Head(split_ws(strip(ustr)))) + 1))

(* C23: when the trimmed where string begins with a number that whitespace *)
(* follows, http_code is that number and the URL is made of all that       *)
(* follows it; otherwise http_code is 302 and the URL is made of the whole *)
(* trimmed string.                                                         *)
C23_LeadingCode ==
    last.op = "urlstr2target" =>
        /\ last.err = "none"
        /\ HasCode(last.src) =>
              /\ last.out.http_code = int(Head(split_ws(strip(last.src)))).n
              /\ last.out.url = UrlOf(AfterCode(last.src))
        /\ ~HasCode(last.src) =>
              /\ last.out.http_code = DefaultCode
              /\ last.out.url = UrlOf(strip(last.src))

(* NAAN.from_anvl_block of the block with the same lines as a shoulder     *)
(* block.                                                                  *)
AsNaanBlock(chosen) == NAAN_from_anvl_block(parse(re_split_lines(BlockText("NAAN", chosen)))).rec

(* C24: NAANShoulder.from_anvl_block gives the contact, who.address,       *)
(* provider and comments that NAAN.from_anvl_block gives for the same      *)
(* lines: !contact, !address and !provider fill their fields and only the  *)
(* other labels that begin with ! are kept in comments.                    *)
C24_ShoulderDispatch ==
    \A chosen \in SUBSET (1..Len(BlockOptions)) :
        (/\ last.op = "from_anvl_block"
         /\ last.src = BlockText("NAANShoulder", chosen)) =>
            /\ last.err = "none"
            /\ last.out.contact = AsNaanBlock(chosen).contact
            /\ last.out.who.address = AsNaanBlock(chosen).who.address
            /\ last.out.provider = AsNaanBlock(chosen).provider
            /\ last.out.comments = AsNaanBlock(chosen).comments

(* C26: after any calls of insert, update, upsert and delete, failed ones  *)
(* included, the index has one entry for each stored record, the entry of  *)
(* a record's identifier is the position of the record, and no two stored  *)
(* records have the same identifier.                                       *)
C26_IndexInvariant ==
    /\ DOMAIN index = {identifier(records[i]) : i \in 1..Len(records)}
    /\ Cardinality(DOMAIN index) = Len(records)
    /\ \A i \in 1..Len(records) : index[identifier(records[i])] = i - 1
    /\ \A i, j \in 1..Len(records) :
          identifier(records[i]) = identifier(records[j]) => i = j

C26_Witness ==
    /\ last.op = "insert"
    /\ last.err = "ValueError"
    /\ Len(records) = 3
    /\ index["12345"] = 2
    /\ last.key = "12345"

(* C27: a load() that raises leaves the records, the index and the         *)
(* metadata of the repository as they were before the call.                *)
C27_FailedLoad ==
    [][(last'.op = "load" /\ last'.err # "none") =>
          /\ records' = records
          /\ index' = index
          /\ metadata' = metadata]_vars

(* The step updates or upserts a stored private record with a public       *)
(* record of its identifier.                                               *)
PublicOverPrivate ==
    /\ last'.op \in {"update", "upsert"}
    /\ last'.key \in DOMAIN index
    /\ Stored(last'.key).cls \in {"NAAN", "NAANShoulder"}
    /\ last'.entry.cls \in {"PublicNAAN", "PublicNAANShoulder"}

(* The private data of record b are those of record a. *)
SamePrivate(a, b) ==
    /\ b.cls = a.cls
    /\ b.rtype = a.rtype
    /\ b.who.wcls = a.who.wcls
    /\ b.who.address = a.who.address
    /\ b.contact = a.contact
    /\ b.alternate_contact = a.alternate_contact
    /\ b.comments = a.comments
    /\ b.provider = a.provider
    /\ b.why = a.why

(* The public fields of record b are those of record a; the when of a NAAN *)
(* is the time t of the update.                                            *)
SamePublic(a, b, t) ==
    /\ b.where = a.where
    /\ b.target = a.target
    /\ b.when = (IF b.cls = "NAAN" THEN t ELSE a.when)
    /\ b.who.name = a.who.name
    /\ b.who.name_native = a.who.name_native
    /\ b.who.acronym = a.who.acronym
    /\ b.na_policy = a.na_policy
    /\ b.test_identifier = a.test_identifier
    /\ b.service_provider = a.service_provider
    /\ b.purpose = a.purpose

(* C28: an update or upsert of a stored NAAN or NAANShoulder with a public *)
(* record of the same identifier leaves the record of its private type     *)
(* with the who.address, contact, alternate_contact, comments, provider    *)
(* and why it had, and gives its public fields the incoming values (the    *)
(* when of a NAAN being the time of the update).                           *)
C28_PrivateKept ==
    [][PublicOverPrivate =>
          /\ last'.err = "none"
          /\ Len(records') = Len(records)
          /\ SamePrivate(Stored(last'.key), records'[index'[last'.key] + 1])
          /\ SamePublic(last'.entry, records'[index'[last'.key] + 1], now)]_vars

(* C29: after update(incoming) has returned, an assignment to the url or   *)
(* http_code of incoming.target leaves the target of the stored record,    *)
(* NAAN or shoulder, as it was.                                            *)
C29_TargetOwned ==
    [][last'.op = "set_target" =>
          records'[index[last.key] + 1].target = Stored(last.key).target]_vars

(* The candidates of a file: its rows that are five digits other than the  *)
(* reserved 90909, in order.                                               *)
Candidates(data) ==
    LET rows == re_split_lines(data)
        five(r) == Len(r) = 5 /\ alldigits(r) /\ r # RESERVED
    IN  SelectSeq([i \in 1..Len(rows) |-> strip(rows[i])], five)

FirstCandidate(data) ==
    IF Candidates(data) = <<>> THEN None ELSE text(Head(Candidates(data)))

Allocated == {allocated[i] : i \in 1..Len(allocated)} \ {None}

(* C25: get_next_naan returns the first candidate of the file, a value not *)
(* allocated before, and leaves the file as it is; allocate_next_naan      *)
(* returns that value, never one it has returned before, and afterwards    *)
(* the value is no candidate of the file.                                  *)
C25_NeverTwice ==
    [][/\ last'.op = "get_next_naan" =>
             /\ candidate_naans_file' = candidate_naans_file
             /\ last'.out.naan = FirstCandidate(candidate_naans_file)
             /\ last'.out.naan \notin Allocated
       /\ last'.op = "allocate_next_naan" =>
             /\ last'.out.naan = FirstCandidate(candidate_naans_file)
             /\ last'.out.naan \notin Allocated
             /\ last'.out.naan # None =>
                   \A i \in 1..Len(Candidates(candidate_naans_file')) :
                      text(Candidates(candidate_naans_file')[i]) # last'.out.naan]_vars

(* The dict before the last entry of the list given to ezid_overrides. *)
BeforeLast(call) ==
    ezid_entries(call.entry.existing,
                 SubSeq(call.entry.entries, 1, Len(call.entry.entries) - 1))

LastEntry(call) == call.entry.entries[Len(call.entry.entries)]

(* The entry has a value, existing has a NAAN record for its prefix and no *)
(* record for prefix/value.                                                *)
NewShoulder(existing, entry) ==
    /\ entry.value # ""
    /\ entry.prefix \in DOMAIN existing
    /\ (entry.prefix \o "/" \o entry.value) \notin DOMAIN existing

(* C30: for an entry with a value, no record prefix/value and a NAAN       *)
(* record for prefix, ezid_overrides leaves under the key prefix/value a   *)
(* record whose naan is the prefix, whose shoulder is the value and whose  *)
(* target url is the EZID template, and leaves the NAAN record as it was.  *)
C30_ShoulderCreated ==
    (/\ last.op = "ezid_overrides"
     /\ last.err = "none"
     /\ NewShoulder(BeforeLast(last), LastEntry(last)))
    => LET entry == LastEntry(last)
           key == entry.prefix \o "/" \o entry.value
           after == last.out.existing
       IN  /\ key \in DOMAIN after
           /\ after[key].naan = entry.prefix
           /\ after[key].shoulder = entry.value
           /\ after[key].target.url = EZID_TARGET
           /\ after[entry.prefix] = BeforeLast(last)[entry.prefix]

====
